---- MODULE Spec2Model ----
(***************************************************************************)
(* Comparative-statistics core of the exhibition report generator:         *)
(* src/reference_data.py (statistics, similarity search, type filtering)   *)
(* and the orchestrator of src/analysis_engine.py.                         *)
(*                                                                         *)
(* Numbers.  The program computes with Python floats.  The model computes  *)
(* with exact rationals <<n, d>> (d > 0, lowest terms), so every           *)
(* comparison the code makes is made on the exact value.  A missing cell   *)
(* (NaN) is the empty tuple <<>>; Python's None for an unavailable result  *)
(* is the empty tuple too, and an available result r is <<r>>.             *)
(*                                                                         *)
(* Column names.  The Korean column names of the workbook are written in   *)
(* ASCII:                                                                  *)
(*   "title"          = "전시 제목"        "exh_type" = "전시 유형"         *)
(*   "total_budget"   = "총 사용 예산"     "exh_days" = "전시 일수"         *)
(*   "total_visitors" = "총 관객수"        "artists"  = "참여 작가 수_총(팀)" *)
(***************************************************************************)
EXTENDS Integers, Sequences, FiniteSets, TLC

VARIABLES
    ref_df,         \* the reference table handed to the core (a DataFrame)
    current_data,   \* the current exhibition's flat dict
    stats,          \* the FieldStats last returned by compute_stats, or None
    call            \* the last call of the core: its name, arguments and result

vars == <<ref_df, current_data, stats, call>>

-----------------------------------------------------------------------------
(* Bounds of the model *)

MaxRows == 3        \* rows of a table of the statistics specification
MaxVal == 2         \* largest whole value of a cell
Grid == 200         \* a cell may also lie 1/Grid above the value 1

-----------------------------------------------------------------------------
(* Exact rational arithmetic *)

RECURSIVE GCD(_, _)
GCD(a, b) == IF b = 0 THEN a ELSE GCD(b, a % b)

AbsI(n) == IF n < 0 THEN -n ELSE n

Q(n, d) ==
    LET s == IF d < 0 THEN -1 ELSE 1
        g == GCD(AbsI(n), AbsI(d))
    IN  <<(s * n) \div g, (s * d) \div g>>

QInt(k) == <<k, 1>>
QNeg(a) == <<-a[1], a[2]>>
(* Sums and products reduce by the common factors first, so that the
   intermediate integers stay small. *)
QAdd(a, b) ==
    LET g == GCD(a[2], b[2])
    IN  Q(a[1] * (b[2] \div g) + b[1] * (a[2] \div g), (a[2] \div g) * b[2])
QSub(a, b) == QAdd(a, QNeg(b))
QMul(a, b) ==
    LET g1 == GCD(AbsI(a[1]), b[2])
        g2 == GCD(AbsI(b[1]), a[2])
    IN  Q((a[1] \div g1) * (b[1] \div g2), (a[2] \div g2) * (b[2] \div g1))
QDiv(a, b) == QMul(a, IF b[1] < 0 THEN <<-b[2], -b[1]>> ELSE <<b[2], b[1]>>)
QAbs(a) == <<AbsI(a[1]), a[2]>>
(* Comparisons look at the whole parts first and cross-multiply only the
   fractional parts, so that large values stay within the integers. *)
QLt(a, b) ==
    LET fa == a[1] \div a[2]
        fb == b[1] \div b[2]
    IN  IF fa # fb THEN fa < fb
        ELSE (a[1] - fa * a[2]) * b[2] < (b[1] - fb * b[2]) * a[2]
QLe(a, b) == a = b \/ QLt(a, b)
QMin(a, b) == IF QLt(b, a) THEN b ELSE a
QMax(a, b) == IF QLt(a, b) THEN b ELSE a

RECURSIVE QSum(_)
QSum(s) == IF s = <<>> THEN QInt(0) ELSE QAdd(s[1], QSum(Tail(s)))

(* Python's round(): to the nearest integer, a tie to the even one. *)
RoundHalfEven(x) ==
    LET fl == x[1] \div x[2]
        r2 == 2 * (x[1] - fl * x[2])
    IN  IF r2 < x[2] THEN fl
        ELSE IF r2 > x[2] THEN fl + 1
        ELSE IF fl % 2 = 0 THEN fl ELSE fl + 1

-----------------------------------------------------------------------------
(* Tables *)

NaN == <<>>
None == <<>>
notna(x) == x # NaN

Some(x) == <<x>>
Get(o) == o[1]

TITLE_COL == "title"

(* A DataFrame: its column names and its rows in order; a row maps each
   column to a cell. *)
DataFrame(columns, rows) == [columns |-> columns, rows |-> rows]

Column(df, column) == [i \in 1..Len(df.rows) |-> df.rows[i][column]]

SeqsUpTo(S, n) == UNION {[1..k -> S] : k \in 0..n}

(* sorted(): ascending, by insertion. *)
RECURSIVE InsertSorted(_, _)
InsertSorted(x, s) ==
    IF s = <<>> THEN <<x>>
    ELSE IF QLt(x, s[1]) THEN <<x>> \o s
    ELSE <<s[1]>> \o InsertSorted(x, Tail(s))

RECURSIVE sorted(_)
sorted(s) == IF s = <<>> THEN <<>> ELSE InsertSorted(s[1], sorted(Tail(s)))

Reverse(s) == [i \in 1..Len(s) |-> s[Len(s) + 1 - i]]

-----------------------------------------------------------------------------
(* Statistics: compute_stats, compute_percentile, compute_rank *)

(* Series.quantile(q) with q = qn/4: linear interpolation between the two
   order statistics around position (n - 1) * q. *)
Quantile(s, qn) ==
    LET pos == (Len(s) - 1) * qn
        lo == pos \div 4
        fr == pos % 4
    IN  IF fr = 0 THEN s[lo + 1]
        ELSE QAdd(s[lo + 1], QMul(Q(fr, 4), QSub(s[lo + 2], s[lo + 1])))

RECURSIVE QSumSq(_, _)
QSumSq(s, m) ==
    IF s = <<>> THEN QInt(0)
    ELSE QAdd(QMul(QSub(s[1], m), QSub(s[1], m)), QSumSq(Tail(s), m))

(* The rows of df whose cell in `column` is present, in order. *)
RECURSIVE DropMissing(_, _)
DropMissing(rows, column) ==
    IF rows = <<>> THEN <<>>
    ELSE IF notna(rows[1][column]) THEN <<rows[1]>> \o DropMissing(Tail(rows), column)
    ELSE DropMissing(Tail(rows), column)

ValidRows(df, column) == DropMissing(df.rows, column)

(* The mutant: the titles are taken from every row instead of the rows whose
   cell is present. *)
StatsTitles_unmasked(df, column) ==
    [i \in 1..Len(df.rows) |-> df.rows[i][TITLE_COL]]

(* df.loc[valid_mask, "전시 제목"].tolist() *)
StatsTitles(df, column) ==
    [i \in 1..Len(ValidRows(df, column)) |-> ValidRows(df, column)[i][TITLE_COL]]

(* df.loc[valid_mask, column].tolist() *)
StatsValues(df, column) ==
    [i \in 1..Len(ValidRows(df, column)) |-> ValidRows(df, column)[i][column]]

(* compute_stats(df, column).  The record is FieldStats; std is carried as
   its square (the sample variance, ddof = 1), which is rational. *)
compute_stats(df, column) ==
    IF column \notin df.columns THEN None
    ELSE
        LET series == StatsValues(df, column)
            srt == sorted(series)
            mean == QDiv(QSum(series), QInt(Len(series)))
        IN  IF Len(series) < 2 THEN None
            ELSE Some([field_name |-> column,
                       count |-> Len(series),
                       mean |-> mean,
                       median |-> Quantile(srt, 2),
                       min_val |-> srt[1],
                       max_val |-> srt[Len(srt)],
                       variance |-> QDiv(QSumSq(series, mean), QInt(Len(series) - 1)),
                       q25 |-> Quantile(srt, 1),
                       q75 |-> Quantile(srt, 3),
                       values |-> StatsValues(df, column),
                       titles |-> StatsTitles(df, column)])

(* The mutant: values equal to `value` are counted as below it. *)
CountBelow_le(sorted_vals, value) ==
    Cardinality({i \in 1..Len(sorted_vals) : QLe(sorted_vals[i], value)})

(* The mutant: the comparison is reversed. *)
CountBelow_gt(sorted_vals, value) ==
    Cardinality({i \in 1..Len(sorted_vals) : QLt(value, sorted_vals[i])})

(* below = sum(1 for v in sorted_vals if v < value) *)
CountBelow(sorted_vals, value) ==
    Cardinality({i \in 1..Len(sorted_vals) : QLt(sorted_vals[i], value)})

(* equal = sum(1 for v in sorted_vals if v == value) *)
CountEqual(sorted_vals, value) ==
    Cardinality({i \in 1..Len(sorted_vals) : sorted_vals[i] = value})

(* The mutant: the plotting position over n + 1. *)
PercentileOf_nplus1(below, equal, n) == Q((2 * below + equal) * 100, 2 * (n + 1))

(* percentile = (below + equal * 0.5) / len(sorted_vals) * 100 *)
PercentileOf(below, equal, n) == Q((2 * below + equal) * 100, 2 * n)

(* compute_percentile(stats, value) *)
compute_percentile(st, value) ==
    IF st = None \/ Get(st).count = 0 THEN 50
    ELSE
        LET sorted_vals == sorted(Get(st).values)
            below == CountBelow(sorted_vals, value)
            equal == CountEqual(sorted_vals, value)
        IN  RoundHalfEven(PercentileOf(below, equal, Len(sorted_vals)))

(* abs(v - value) < 0.01 *)
RANK_TOLERANCE == Q(1, 100)

NearOrEqual(v, value) == QLt(QAbs(QSub(v, value)), RANK_TOLERANCE) \/ v = value

(* The first of the positions a loop over enumerate() stops at: 0 when it
   runs to its end. *)
FirstIndex(hit) ==
    IF hit = {} THEN 0 ELSE CHOOSE i \in hit : \A j \in hit : i <= j

(* The mutant: the two sort directions are exchanged. *)
SortedForRank_flipped(values, ascending) ==
    IF ascending THEN Reverse(sorted(values)) ELSE sorted(values)

(* sorted(stats.values) or sorted(stats.values, reverse=True) *)
SortedForRank(values, ascending) ==
    IF ascending THEN sorted(values) ELSE Reverse(sorted(values))

(* The mutant: the last of the matching positions is returned. *)
RankMatch_last(sorted_vals, value) ==
    LET hit == {i \in 1..Len(sorted_vals) : NearOrEqual(sorted_vals[i], value)}
    IN  IF hit = {} THEN 0 ELSE CHOOSE i \in hit : \A j \in hit : j <= i

(* The mutant: only an equal value matches. *)
RankMatch_exact(sorted_vals, value) ==
    FirstIndex({i \in 1..Len(sorted_vals) : sorted_vals[i] = value})

(* The first loop of compute_rank: the first position whose value is equal
   or near `value`, 0 when there is none. *)
RankMatch(sorted_vals, value) ==
    FirstIndex({i \in 1..Len(sorted_vals) : NearOrEqual(sorted_vals[i], value)})

(* The mutant: the insertion position is returned 0-based. *)
RankInsertion_zero_based(sorted_vals, value, ascending) ==
    LET insert == FirstIndex({i \in 1..Len(sorted_vals) :
                                 \/ (~ascending /\ QLt(sorted_vals[i], value))
                                 \/ (ascending /\ QLt(value, sorted_vals[i]))})
    IN  IF insert # 0 THEN insert - 1 ELSE Len(sorted_vals)

(* The second loop of compute_rank and its fall-through. *)
RankInsertion(sorted_vals, value, ascending) ==
    LET insert == FirstIndex({i \in 1..Len(sorted_vals) :
                                 \/ (~ascending /\ QLt(sorted_vals[i], value))
                                 \/ (ascending /\ QLt(value, sorted_vals[i]))})
    IN  IF insert # 0 THEN insert ELSE Len(sorted_vals) + 1

(* compute_rank(stats, value, ascending) *)
compute_rank(st, value, ascending) ==
    IF st = None \/ Get(st).count = 0 THEN 0
    ELSE
        LET sorted_vals == SortedForRank(Get(st).values, ascending)
        IN  IF RankMatch(sorted_vals, value) # 0 THEN RankMatch(sorted_vals, value)
            ELSE RankInsertion(sorted_vals, value, ascending)

-----------------------------------------------------------------------------
(* The statistics specification: a table with one numeric column, and the
   three statistics functions called on it in any order. *)

STAT_COL == "total_visitors"
ABSENT_COL == "daily_visitors"

StatVals == {QInt(k) : k \in 0..MaxVal} \cup {Q(Grid + 1, Grid)}

(* The corpus of the worked example: 100, 100, 120, 150, 150. *)
ExampleValues == <<QInt(100), QInt(100), QInt(120), QInt(150), QInt(150)>>
ExampleValue == QInt(130)

StatTable(cells) ==
    DataFrame({TITLE_COL, STAT_COL},
              [i \in 1..Len(cells) |->
                  [c \in {TITLE_COL, STAT_COL} |-> IF c = TITLE_COL THEN i ELSE cells[i]]])

(* Four values, of which one lies 12.5 % up the ranking: a percentile that
   is a tie between two integers. *)
TieValues == <<QInt(1), QInt(0), QInt(1), QInt(2)>>

StatTables ==
    {StatTable(cells) : cells \in SeqsUpTo(StatVals \cup {NaN}, MaxRows)}
        \cup {StatTable(ExampleValues), StatTable(TieValues)}

(* A value exactly 0.01 above a corpus value: the edge of the tolerance. *)
EdgeValue == QAdd(QInt(1), RANK_TOLERANCE)

QueryVals == StatVals \cup {ExampleValue, EdgeValue}

NoCurrent == [f \in {} |-> None]

InitStats ==
    /\ ref_df \in StatTables
    /\ current_data = NoCurrent
    /\ stats = None
    /\ call = [op |-> "load_reference"]

ComputeStats(column) ==
    /\ stats' = compute_stats(ref_df, column)
    /\ call' = [op |-> "compute_stats", column |-> column]
    /\ UNCHANGED <<ref_df, current_data>>

ComputePercentile(value) ==
    /\ call' = [op |-> "compute_percentile", value |-> value,
                ret |-> compute_percentile(stats, value)]
    /\ UNCHANGED <<ref_df, current_data, stats>>

ComputeRank(value, ascending) ==
    /\ call' = [op |-> "compute_rank", value |-> value, ascending |-> ascending,
                ret |-> compute_rank(stats, value, ascending)]
    /\ UNCHANGED <<ref_df, current_data, stats>>

NextStats ==
    \/ \E column \in {STAT_COL, ABSENT_COL} : ComputeStats(column)
    \/ \E value \in QueryVals : ComputePercentile(value)
    \/ \E value \in QueryVals, ascending \in BOOLEAN : ComputeRank(value, ascending)

SpecStats == InitStats /\ [][NextStats]_vars

-----------------------------------------------------------------------------
(* Similarity search: get_similar_exhibitions *)

SCORE_COL == "_similarity_score"

(* SIMILARITY_FIELDS, in the dict's order. *)
SIMILARITY_FIELDS ==
    << [field |-> "total_budget", weight |-> Q(35, 100)],
       [field |-> "exh_days", weight |-> Q(25, 100)],
       [field |-> "total_visitors", weight |-> Q(25, 100)],
       [field |-> "artists", weight |-> Q(15, 100)] >>

(* valid = col.notna() & (col != 0) *)
ValidCells(df, field) ==
    {i \in 1..Len(df.rows) : notna(df.rows[i][field]) /\ df.rows[i][field] # QInt(0)}

ColMax(df, field) ==
    CHOOSE v \in {df.rows[i][field] : i \in ValidCells(df, field)} :
        \A i \in ValidCells(df, field) : QLe(df.rows[i][field], v)

ColMin(df, field) ==
    CHOOSE v \in {df.rows[i][field] : i \in ValidCells(df, field)} :
        \A i \in ValidCells(df, field) : QLe(v, df.rows[i][field])

(* col_range = col[valid].max() - col[valid].min() *)
ColRange(df, field) == QSub(ColMax(df, field), ColMin(df, field))

(* The guards of the loop body: the field is skipped (continue) unless all
   of them pass. *)
FieldUsed(df, current, field) ==
    /\ field \in DOMAIN current
    /\ current[field] # None
    /\ field \in df.columns
    /\ current[field] # QInt(0)
    /\ Cardinality(ValidCells(df, field)) >= 2
    /\ ColRange(df, field) # QInt(0)

(* The mutant: the difference is not clipped to 1. *)
FieldDiff_unclipped(df, current, field, i) ==
    IF df.rows[i][field] = NaN THEN QInt(1)
    ELSE QDiv(QAbs(QSub(df.rows[i][field], current[field])), ColRange(df, field))

(* The mutant: a missing cell is at distance 0. *)
FieldDiff_missing_near(df, current, field, i) ==
    IF df.rows[i][field] = NaN THEN QInt(0)
    ELSE QMin(QDiv(QAbs(QSub(df.rows[i][field], current[field])), ColRange(df, field)),
              QInt(1))

(* diff = ((col - current_val).abs() / col_range).clip(upper=1.0).fillna(1.0),
   at row i. *)
FieldDiff(df, current, field, i) ==
    IF df.rows[i][field] = NaN THEN QInt(1)
    ELSE QMin(QDiv(QAbs(QSub(df.rows[i][field], current[field])), ColRange(df, field)),
              QInt(1))

(* The entries of SIMILARITY_FIELDS the loop does not skip, in order. *)
used_fields(df, current) ==
    SelectSeq(SIMILARITY_FIELDS, LAMBDA e : FieldUsed(df, current, e.field))

(* scores[i] after the first k of the fields used: scores += diff * weight. *)
RECURSIVE ScoreSum(_, _, _, _, _)
ScoreSum(df, current, used, i, k) ==
    IF k = 0 THEN QInt(0)
    ELSE QAdd(ScoreSum(df, current, used, i, k - 1),
              QMul(FieldDiff(df, current, used[k].field, i), used[k].weight))

(* total_weight after the first k of the fields used: total_weight += weight. *)
RECURSIVE WeightSum(_, _)
WeightSum(used, k) ==
    IF k = 0 THEN QInt(0) ELSE QAdd(WeightSum(used, k - 1), used[k].weight)

total_weight(df, current) ==
    WeightSum(used_fields(df, current), Len(used_fields(df, current)))

(* The mutant: the normalised distance itself is stored as the score. *)
SimilarityOf_distance(distance) == distance

(* df_result["_similarity_score"] = 1 - scores *)
SimilarityOf(distance) == QSub(QInt(1), distance)

(* _similarity_score of row i: 1 - scores[i] / total_weight
   (total_weight is not 0). *)
similarity_score(df, current, used, i) ==
    SimilarityOf(QDiv(ScoreSum(df, current, used, i, Len(used)), WeightSum(used, Len(used))))

(* The first k rows of df_result: the rows of df with the score column. *)
RECURSIVE ScoredRows(_, _, _, _)
ScoredRows(df, current, used, k) ==
    IF k = 0 THEN <<>>
    ELSE Append(ScoredRows(df, current, used, k - 1),
                df.rows[k] @@ (SCORE_COL :> similarity_score(df, current, used, k)))

(* df_result: a copy of df with the score column. *)
df_result(df, current) ==
    DataFrame(df.columns \cup {SCORE_COL},
              ScoredRows(df, current, used_fields(df, current), Len(df.rows)))

(* The orders of the rows numbered in S in which the scores do not
   increase: the row lists a sort by score, descending, may produce. *)
RECURSIVE RowOrders(_, _)
RowOrders(rows, S) ==
    IF S = {} THEN {<<>>}
    ELSE UNION {{<<rows[i]>> \o rest : rest \in RowOrders(rows, S \ {i})} :
                   i \in {m \in S : \A j \in S : QLe(rows[j][SCORE_COL], rows[m][SCORE_COL])}}

(* sort_values("_similarity_score", ascending=False) with the default
   kind="quicksort", which is not a stable sort: every order of the rows
   in which the scores do not increase is a possible result. *)
sort_values_desc(df) ==
    {DataFrame(df.columns, rows) : rows \in RowOrders(df.rows, 1..Len(df.rows))}

(* The mutant: nothing is cut off. *)
head_whole(df, n) == df

(* df.head(n) *)
head(df, n) ==
    DataFrame(df.columns, SubSeq(df.rows, 1, IF n < Len(df.rows) THEN n ELSE Len(df.rows)))

(* pd.DataFrame() *)
EmptyFrame == DataFrame({}, <<>>)

(* df.empty *)
IsEmpty(df) == df.columns = {} \/ df.rows = <<>>

(* get_similar_exhibitions(df, current, top_n): the set of the tables it may
   return (one, up to the order of rows of equal score). *)
get_similar_exhibitions(df, current, top_n) ==
    IF IsEmpty(df) THEN {EmptyFrame}
    ELSE IF total_weight(df, current) = QInt(0) THEN {head(df, top_n)}
    ELSE {head(sorted_df, top_n) : sorted_df \in sort_values_desc(df_result(df, current))}

-----------------------------------------------------------------------------
(* The similarity specification: tables with the weighted columns, a current
   record, and get_similar_exhibitions called on them. *)

SimRows == 3        \* rows of a table of the similarity specification

TOP_N_DEFAULT == 5

SimFields == {SIMILARITY_FIELDS[k].field : k \in 1..Len(SIMILARITY_FIELDS)}

(* The cells of a budget column: missing, 0, 1 and the largest value. *)
SimCells == {NaN, QInt(0), QInt(1), QInt(MaxVal)}

(* The cell of a column filled by rule: row i of n. *)
Profile(kind, i, n) ==
    IF kind = "ramp" THEN QInt(i)
    ELSE IF kind = "down" THEN QInt(n + 1 - i)
    ELSE IF i = 1 THEN NaN ELSE QInt(i)

(* Which of the other three weighted columns a table has, and how each is
   filled. *)
SimLayouts ==
    { [f \in {} |-> "ramp"],
      [f \in {"artists"} |-> "holes"],
      [f \in {"exh_days", "total_visitors", "artists"} |->
          IF f = "exh_days" THEN "ramp" ELSE IF f = "total_visitors" THEN "down" ELSE "holes"] }

SimTable(budget, layout) ==
    DataFrame({TITLE_COL, "total_budget"} \cup DOMAIN layout,
              [i \in 1..Len(budget) |->
                  [c \in {TITLE_COL, "total_budget"} \cup DOMAIN layout |->
                      IF c = TITLE_COL THEN i
                      ELSE IF c = "total_budget" THEN budget[i]
                      ELSE Profile(layout[c], i, Len(budget))]])

SimTables ==
    {SimTable(budget, layout) : budget \in SeqsUpTo(SimCells, SimRows), layout \in SimLayouts}

(* The current record: its budget, and one value for the three other
   weighted fields; or the budget alone, the other keys missing. *)
SimCurrents ==
    {[f \in SimFields |-> IF f = "total_budget" THEN b ELSE x] :
        b \in {None} \cup {QInt(k) : k \in 0..MaxVal},
        x \in {None} \cup {QInt(k) : k \in 1..MaxVal}}
    \cup {[f \in {"total_budget"} |-> QInt(1)]}

(* A render loads the table and then makes its call: the functions are pure,
   so a call on a table that was just loaded is every call there is. *)
Loaded == call.op = "load_reference"

InitSim ==
    /\ ref_df \in SimTables
    /\ current_data \in SimCurrents
    /\ stats = None
    /\ call = [op |-> "load_reference"]

GetSimilarExhibitions(top_n) ==
    /\ Loaded
    /\ \E ret \in get_similar_exhibitions(ref_df, current_data, top_n) :
        call' = [op |-> "get_similar_exhibitions", top_n |-> top_n, ret |-> ret]
    /\ UNCHANGED <<ref_df, current_data, stats>>

NextSim == \E top_n \in {1, TOP_N_DEFAULT} : GetSimilarExhibitions(top_n)

SpecSim == InitSim /\ [][NextSim]_vars

-----------------------------------------------------------------------------
(* Type filtering: exclude_type_zero, filter_by_type, get_type_label *)

EXHIBITION_TYPE_COL == "exh_type"
EXCLUDED_TYPE == 0
MIN_SAME_TYPE == 3

(* df[mask]: the rows numbered in keep, in order. *)
RECURSIVE KeepRows(_, _, _)
KeepRows(rows, keep, k) ==
    IF k = 0 THEN <<>>
    ELSE IF k \in keep THEN Append(KeepRows(rows, keep, k - 1), rows[k])
    ELSE KeepRows(rows, keep, k - 1)

Masked(df, keep) == DataFrame(df.columns, KeepRows(df.rows, keep, Len(df.rows)))

(* The mutant: nothing is excluded. *)
exclude_type_zero_nothing(df) == df

(* exclude_type_zero(df): a missing type is not equal to 0 and stays. *)
exclude_type_zero(df) ==
    IF EXHIBITION_TYPE_COL \notin df.columns THEN df
    ELSE Masked(df, {i \in 1..Len(df.rows) :
                        df.rows[i][EXHIBITION_TYPE_COL] # QInt(EXCLUDED_TYPE)})

(* A requested type: None, a number, or a text float() cannot read. *)
NoType == [kind |-> "None"]
NumType(q) == [kind |-> "number", val |-> q]
TextType == [kind |-> "text"]

(* float(exhibition_type): None stands for ValueError / TypeError. *)
ToFloat(exhibition_type) ==
    IF exhibition_type.kind = "number" THEN Some(exhibition_type.val) ELSE None

(* The mutant: two rows of the type are taken to be enough. *)
TooFewOfType_two(filtered) == Len(filtered.rows) < 2

(* len(filtered) < 3 *)
TooFewOfType(filtered) == Len(filtered.rows) < MIN_SAME_TYPE

(* filter_by_type(df, exhibition_type) *)
filter_by_type(df, exhibition_type) ==
    LET excluded == exclude_type_zero(df)
    IN  IF exhibition_type = NoType \/ EXHIBITION_TYPE_COL \notin excluded.columns
        THEN excluded
        ELSE IF ToFloat(exhibition_type) = None THEN excluded
        ELSE
            LET target == Get(ToFloat(exhibition_type))
                filtered == Masked(excluded,
                                   {i \in 1..Len(excluded.rows) :
                                       excluded.rows[i][EXHIBITION_TYPE_COL] = target})
            IN  IF TooFewOfType(filtered) THEN excluded ELSE filtered

(* int(float(t)) for t >= 0. *)
Trunc(q) == q[1] \div q[2]

(* get_type_label(exhibition_type): "all" for the label of the whole corpus,
   else the type's number (the label is the number followed by a suffix). *)
get_type_label(exhibition_type) ==
    IF exhibition_type = NoType \/ ToFloat(exhibition_type) = None THEN "all"
    ELSE Trunc(Get(ToFloat(exhibition_type)))

-----------------------------------------------------------------------------
(* Derived metrics: compute_derived_metrics *)

(* The five derived columns: name, numerator column, denominator column.
   "cost_per_visitor" = "관객당_비용", "revenue_budget_ratio" = "수입_예산_비율",
   "paid_ratio" = "유료_비율", "program_rate" = "프로그램_참여율",
   "visitors_per_press" = "보도건당_관객"; "total_revenue" = "총수입",
   "paid_visitors" = "유료 관객수", "program_participants" = "프로그램 참여 인원",
   "press_count" = "언론 보도 건수". *)
DERIVED ==
    << [name |-> "cost_per_visitor", num |-> "total_budget", den |-> "total_visitors"],
       [name |-> "revenue_budget_ratio", num |-> "total_revenue", den |-> "total_budget"],
       [name |-> "paid_ratio", num |-> "paid_visitors", den |-> "total_visitors"],
       [name |-> "program_rate", num |-> "program_participants", den |-> "total_visitors"],
       [name |-> "visitors_per_press", num |-> "total_visitors", den |-> "press_count"] >>

DerivedNames == {DERIVED[k].name : k \in 1..Len(DERIVED)}

(* The columns compute_derived_metrics indexes; df[column] raises KeyError
   for one the table does not have. *)
DerivedInputs ==
    {DERIVED[k].num : k \in 1..Len(DERIVED)} \cup {DERIVED[k].den : k \in 1..Len(DERIVED)}

(* The mutant: only a zero or missing denominator is guarded. *)
Ratio_nonzero(num, den) ==
    IF notna(den) /\ den # QInt(0)
    THEN (IF notna(num) THEN QDiv(num, den) ELSE NaN)
    ELSE NaN

(* np.where(den.notna() & (den > 0), num / den, np.nan) at one row. *)
Ratio(num, den) ==
    IF notna(den) /\ QLt(QInt(0), den)
    THEN (IF notna(num) THEN QDiv(num, den) ELSE NaN)
    ELSE NaN

DerivedRow(row) ==
    [c \in DOMAIN row \cup DerivedNames |->
        IF c \in DerivedNames
        THEN LET d == CHOOSE e \in {DERIVED[k] : k \in 1..Len(DERIVED)} : e.name = c
             IN  Ratio(row[d.num], row[d.den])
        ELSE row[c]]

(* compute_derived_metrics(df), for a table that has the input columns. *)
compute_derived_metrics(df) ==
    DataFrame(df.columns \cup DerivedNames,
              [i \in 1..Len(df.rows) |-> DerivedRow(df.rows[i])])

-----------------------------------------------------------------------------
(* Insights: the Insight record and the base rule _make_insight *)

(* Texts.  A generated sentence is carried as a record of its template and
   of the values and words filled into it; Korean words are written in
   English ("above" = "상회합니다", "below" = "하회합니다").  The numbers a
   sentence shows through format_number, and the particles _postposition
   picks, are not part of the record. *)

(* f"{x:.1f}": x to one decimal. *)
Fixed1(x) == Q(RoundHalfEven(QMul(x, QInt(10))), 10)

(* f"{x:.0f}": x to a whole number. *)
Fixed0(x) == RoundHalfEven(x)

(* The mutant: the two words are exchanged. *)
direction_verb_flipped(diff_pct) == IF QLt(QInt(0), diff_pct) THEN "below" ELSE "above"

(* _direction_verb(diff_pct) *)
direction_verb(diff_pct) == IF QLt(QInt(0), diff_pct) THEN "above" ELSE "below"

(* The mutant: the cut points of the higher-is-better words belong to the
   band above them. *)
quality_word_inclusive(diff_pct, higher_is_better) ==
    IF higher_is_better
    THEN IF QLe(QInt(30), diff_pct) THEN "excellent"
         ELSE IF QLe(QInt(10), diff_pct) THEN "good"
         ELSE IF QLe(QInt(-10), diff_pct) THEN "average"
         ELSE IF QLe(QInt(-30), diff_pct) THEN "rather_poor"
         ELSE "poor"
    ELSE IF QLt(diff_pct, QInt(-30)) THEN "very_efficient"
         ELSE IF QLt(diff_pct, QInt(-10)) THEN "efficient"
         ELSE IF QLt(diff_pct, QInt(10)) THEN "average"
         ELSE IF QLt(diff_pct, QInt(30)) THEN "rather_high"
         ELSE "high"

(* _quality_word(diff_pct, higher_is_better): "excellent" = "매우 우수한",
   "good" = "양호한", "average" = "평균 수준의", "rather_poor" = "다소 저조한",
   "poor" = "저조한", "very_efficient" = "매우 효율적인", "efficient" =
   "효율적인", "rather_high" = "다소 높은", "high" = "높은". *)
quality_word(diff_pct, higher_is_better) ==
    IF higher_is_better
    THEN IF QLt(QInt(30), diff_pct) THEN "excellent"
         ELSE IF QLt(QInt(10), diff_pct) THEN "good"
         ELSE IF QLt(QInt(-10), diff_pct) THEN "average"
         ELSE IF QLt(QInt(-30), diff_pct) THEN "rather_poor"
         ELSE "poor"
    ELSE IF QLt(diff_pct, QInt(-30)) THEN "very_efficient"
         ELSE IF QLt(diff_pct, QInt(-10)) THEN "efficient"
         ELSE IF QLt(diff_pct, QInt(10)) THEN "average"
         ELSE IF QLt(diff_pct, QInt(30)) THEN "rather_high"
         ELSE "high"

(* (val - mean) / abs(mean) * 100 *)
DiffPct(val, mean) == QMul(QDiv(QSub(val, mean), QAbs(mean)), QInt(100))

(* Python truthiness of a number or None: `if v:`. *)
Truthy(v) == v # None /\ v # QInt(0)

(* The dataclass Insight; an optional field that is not given is None, a
   given percentile, rank or total_count n is <<n>>. *)
Insight(category, section, title, text, metric_name, current_value, reference_avg, percentile, rank, total_count, priority) ==
    [category |-> category, section |-> section, title |-> title, text |-> text,
     metric_name |-> metric_name, current_value |-> current_value,
     reference_avg |-> reference_avg, percentile |-> percentile, rank |-> rank,
     total_count |-> total_count, priority |-> priority, selected |-> TRUE]

(* The mutant: a sample of two is enough. *)
TooSmallSample_two(st) == Get(st).count < 2

(* stats.count < 3 *)
TooSmallSample(st) == Get(st).count < 3

(* _make_insight(...): None, or <<the Insight>>. *)
make_insight(category, section, title, metric_name, current_val, st, higher_is_better, priority, group_label) ==
    IF current_val = None \/ st = None THEN None
    ELSE IF TooSmallSample(st) THEN None
    ELSE IF Get(st).mean = QInt(0) THEN None
    ELSE
        LET avg == Get(st).mean
            diff_pct == DiffPct(current_val, avg)
            pct == compute_percentile(st, current_val)
            rank == compute_rank(st, current_val, ~higher_is_better)
            text == [template |-> "base", metric_name |-> metric_name,
                     current |-> current_val, group_label |-> group_label,
                     avg |-> avg, abs_diff |-> Fixed1(QAbs(diff_pct)),
                     direction |-> direction_verb(diff_pct),
                     count |-> Get(st).count, rank |-> rank]
        IN  Some(Insight(category, section, title, text, metric_name, current_val,
                         avg, Some(pct), Some(rank), Some(Get(st).count), priority))

(* _diff_pct(val, stats): None, or the deviation in per cent. *)
diff_pct_of(val, st) ==
    IF val = None \/ st = None THEN None
    ELSE IF Get(st).mean = QInt(0) THEN None
    ELSE DiffPct(val, Get(st).mean)

-----------------------------------------------------------------------------
(* The base-rule specification: the statistics of a one-column table, and
   _make_insight called with them. *)

(* A corpus whose mean is 100,000,000. *)
BudgetExampleValues == <<QInt(100000000), QInt(100000000), QInt(100000000)>>
BudgetExampleValue == QInt(70000000)

BaseTables == StatTables \cup {StatTable(BudgetExampleValues)}

(* The values asked of a table; the corpus of the budget example is asked
   its own values, the other tables theirs, which keeps the model's integers
   within 32 bits. *)
BaseVals(df) ==
    IF df = StatTable(BudgetExampleValues)
    THEN {None, QInt(0), BudgetExampleValue, BudgetExampleValues[1]}
    ELSE QueryVals \cup {None}

InitBase ==
    /\ ref_df \in BaseTables
    /\ current_data = NoCurrent
    /\ stats = None
    /\ call = [op |-> "load_reference"]

MakeInsight(current_val, higher_is_better) ==
    /\ call' = [op |-> "_make_insight", current_val |-> current_val,
                higher_is_better |-> higher_is_better,
                ret |-> make_insight("audience", "results", "total_visitors",
                                     "total_visitors", current_val, stats,
                                     higher_is_better, 1, <<"all_time">>)]
    /\ UNCHANGED <<ref_df, current_data, stats>>

NextBase ==
    \/ ComputeStats(STAT_COL)
    \/ \E current_val \in BaseVals(ref_df), higher_is_better \in BOOLEAN :
           MakeInsight(current_val, higher_is_better)

SpecBase == InitBase /\ [][NextBase]_vars

-----------------------------------------------------------------------------
(* The specification of the quality words: one call of _quality_word on a
   deviation *)

MaxDiff == 40       \* largest deviation, in percent, given to _quality_word

(* The deviations given to _quality_word: the halves from -MaxDiff to
   MaxDiff, the cut points 10 and 30 and their negatives among them. *)
QualityDiffs == {Q(k, 2) : k \in (0 - 2 * MaxDiff)..(2 * MaxDiff)}

InitQuality ==
    /\ ref_df = EmptyFrame
    /\ current_data = NoCurrent
    /\ stats = None
    /\ \E diff_pct \in QualityDiffs : call = [op |-> "diff_pct", diff_pct |-> diff_pct]

QualityWord(higher_is_better) ==
    /\ call.op = "diff_pct"
    /\ call' = [op |-> "_quality_word", diff_pct |-> call.diff_pct,
                higher_is_better |-> higher_is_better,
                ret |-> quality_word(call.diff_pct, higher_is_better)]
    /\ UNCHANGED <<ref_df, current_data, stats>>

NextQuality == \E higher_is_better \in BOOLEAN : QualityWord(higher_is_better)

SpecQuality == InitQuality /\ [][NextQuality]_vars

-----------------------------------------------------------------------------
(* The evaluation-draft synthesizer: _generate_eval_drafts *)

(* Metric names.  A metric_name whose Korean text is also a column name is
   written as the column; the others are written in words:
     "paid visitor ratio" = "유료 관객 비율"   "student visitors" = "학생 관객수"
     "cost per visitor" = "관객당 비용"       "exhibition cost ratio" = "전시비 비율"
     "budget recovery" = "예산 회수율"        "program count" = "프로그램 수"
     "program participation rate" = "프로그램 참여율"
     "artworks" = "출품 작품 수"              "media composition" = "매체별 작품 구성"
     "visitors per press" = "보도건당 관객"   "visitors per staff" = "인력당 관객"
     "budget-visitor efficiency" = "예산-관객 효율"
     "budget-visitor inefficiency" = "예산-관객 비효율"
     "press-visitor relation" = "보도-관객 관계"
   KEYWORDS gives, for each metric name, which of the words the synthesizer
   looks for occur in its Korean text: "audience" = "관객", "cost" = "비용",
   "participation" = "참여", "recovery" = "회수", "press" = "보도". *)
KEYWORDS ==
    "total_visitors" :> {"audience"} @@
    "daily_visitors" :> {"audience"} @@
    "paid visitor ratio" :> {"audience"} @@
    "student visitors" :> {"audience"} @@
    "artpass_visitors" :> {"audience"} @@
    "total_budget" :> {} @@
    "cost per visitor" :> {"audience", "cost"} @@
    "exhibition cost ratio" :> {} @@
    "budget recovery" :> {"recovery"} @@
    "program count" :> {} @@
    "program_participants" :> {"participation"} @@
    "program participation rate" :> {"participation"} @@
    "artworks" :> {} @@
    "media composition" :> {} @@
    "press_count" :> {"press"} @@
    "visitors per press" :> {"audience", "press"} @@
    "sns_posts" :> {} @@
    "visitors per staff" :> {"audience"} @@
    "budget-visitor efficiency" :> {"audience"} @@
    "budget-visitor inefficiency" :> {"audience"} @@
    "press-visitor relation" :> {"audience", "press"} @@
    "" :> {}

(* keyword in ins.metric_name *)
Contains(metric_name, keyword) == keyword \in KEYWORDS[metric_name]

(* The dataclass EvalDraft. *)
EvalDraft(eval_type, text, source_metric) ==
    [eval_type |-> eval_type, text |-> text, source_metric |-> source_metric,
     confidence |-> Q(8, 10), selected |-> TRUE]

(* The mutant: a metric named by none of the keywords gets no draft. *)
PositiveDrafts_named_only(ins, diff) ==
    IF ~QLt(QInt(15), diff) THEN <<>>
    ELSE IF Contains(ins.metric_name, "audience")
    THEN <<EvalDraft("positive",
                     [template |-> "high_result", metric_name |-> ins.metric_name,
                      abs_diff |-> Fixed0(QAbs(diff))],
                     ins.metric_name)>>
    ELSE IF Contains(ins.metric_name, "participation")
    THEN <<EvalDraft("positive", [template |-> "participation_above_average"],
                     ins.metric_name)>>
    ELSE IF Contains(ins.metric_name, "recovery")
    THEN <<EvalDraft("positive",
                     [template |-> "recovery_good",
                      recovery_pct |-> Fixed1(QMul(ins.current_value, QInt(100)))],
                     ins.metric_name)>>
    ELSE <<>>

(* The drafts of the `diff > 15` block. *)
PositiveDrafts(ins, diff) ==
    IF ~QLt(QInt(15), diff) THEN <<>>
    ELSE IF Contains(ins.metric_name, "audience")
    THEN <<EvalDraft("positive",
                     [template |-> "high_result", metric_name |-> ins.metric_name,
                      abs_diff |-> Fixed0(QAbs(diff))],
                     ins.metric_name)>>
    ELSE IF Contains(ins.metric_name, "cost") /\ QLt(diff, QInt(0))
    THEN <<EvalDraft("positive", [template |-> "cost_below_average"], ins.metric_name)>>
    ELSE IF Contains(ins.metric_name, "participation")
    THEN <<EvalDraft("positive", [template |-> "participation_above_average"],
                     ins.metric_name)>>
    ELSE IF Contains(ins.metric_name, "recovery")
    THEN <<EvalDraft("positive",
                     [template |-> "recovery_good",
                      recovery_pct |-> Fixed1(QMul(ins.current_value, QInt(100)))],
                     ins.metric_name)>>
    ELSE <<EvalDraft("positive",
                     [template |-> "above_average", metric_name |-> ins.metric_name],
                     ins.metric_name)>>

(* The mutant: the efficient-operation draft waits for 15 % below. *)
EfficientDrafts_fifteen(ins, diff) ==
    IF Contains(ins.metric_name, "cost") /\ QLt(diff, QInt(-15))
    THEN <<EvalDraft("positive",
                     [template |-> "efficient_operation", abs_diff |-> Fixed0(QAbs(diff))],
                     ins.metric_name)>>
    ELSE <<>>

(* "비용" in ins.metric_name and diff < -10 *)
EfficientDrafts(ins, diff) ==
    IF Contains(ins.metric_name, "cost") /\ QLt(diff, QInt(-10))
    THEN <<EvalDraft("positive",
                     [template |-> "efficient_operation", abs_diff |-> Fixed0(QAbs(diff))],
                     ins.metric_name)>>
    ELSE <<>>

(* The mutant: the negative drafts wait for 20 % below, as the improvement
   drafts do. *)
NegativeDrafts_twenty(ins, diff) ==
    IF ~QLt(diff, QInt(-20)) THEN <<>>
    ELSE IF Contains(ins.metric_name, "audience") /\ ~Contains(ins.metric_name, "cost")
    THEN <<EvalDraft("negative",
                     [template |-> "low_result", metric_name |-> ins.metric_name,
                      abs_diff |-> Fixed0(QAbs(diff))],
                     ins.metric_name)>>
    ELSE IF Contains(ins.metric_name, "participation")
    THEN <<EvalDraft("negative", [template |-> "participation_below_average"],
                     ins.metric_name)>>
    ELSE <<>>

(* The drafts of the `diff < -15` block. *)
NegativeDrafts(ins, diff) ==
    IF ~QLt(diff, QInt(-15)) THEN <<>>
    ELSE IF Contains(ins.metric_name, "audience") /\ ~Contains(ins.metric_name, "cost")
    THEN <<EvalDraft("negative",
                     [template |-> "low_result", metric_name |-> ins.metric_name,
                      abs_diff |-> Fixed0(QAbs(diff))],
                     ins.metric_name)>>
    ELSE IF Contains(ins.metric_name, "participation")
    THEN <<EvalDraft("negative", [template |-> "participation_below_average"],
                     ins.metric_name)>>
    ELSE <<>>

(* "비용" in ins.metric_name and diff > 15 *)
CostlyDrafts(ins, diff) ==
    IF Contains(ins.metric_name, "cost") /\ QLt(QInt(15), diff)
    THEN <<EvalDraft("negative",
                     [template |-> "cost_needs_improvement",
                      abs_diff |-> Fixed0(QAbs(diff))],
                     ins.metric_name)>>
    ELSE <<>>

(* The drafts of the `diff < -20` block. *)
ImprovementDrafts(ins, diff) ==
    IF ~QLt(diff, QInt(-20)) THEN <<>>
    ELSE IF Contains(ins.metric_name, "audience") /\ ~Contains(ins.metric_name, "cost")
    THEN <<EvalDraft("improvement", [template |-> "widen_marketing"], ins.metric_name)>>
    ELSE IF Contains(ins.metric_name, "participation")
    THEN <<EvalDraft("improvement", [template |-> "raise_participation"], ins.metric_name)>>
    ELSE IF Contains(ins.metric_name, "press")
    THEN <<EvalDraft("improvement", [template |-> "review_press_strategy"],
                     ins.metric_name)>>
    ELSE <<>>

(* The drafts one insight adds, in the order the loop body appends them. *)
DraftsOf(ins) ==
    IF ins.current_value = None \/ ins.reference_avg = None THEN <<>>
    ELSE IF ins.reference_avg = QInt(0) THEN <<>>
    ELSE
        LET diff == DiffPct(ins.current_value, ins.reference_avg)
        IN  PositiveDrafts(ins, diff) \o EfficientDrafts(ins, diff)
                \o NegativeDrafts(ins, diff) \o CostlyDrafts(ins, diff)
                \o ImprovementDrafts(ins, diff)

(* `drafts` after the loop over the insights. *)
RECURSIVE CandidateDrafts(_)
CandidateDrafts(insights) ==
    IF insights = <<>> THEN <<>>
    ELSE DraftsOf(insights[1]) \o CandidateDrafts(Tail(insights))

DraftKey(d) == <<d.eval_type, d.source_metric>>

(* The mutant: a later draft of a key replaces the one kept. *)
RECURSIVE Unique_keep_last(_, _)
Unique_keep_last(drafts, k) ==
    IF k = 0 THEN <<>>
    ELSE IF \E j \in (k + 1)..Len(drafts) : DraftKey(drafts[j]) = DraftKey(drafts[k])
         THEN Unique_keep_last(drafts, k - 1)
         ELSE Append(Unique_keep_last(drafts, k - 1), drafts[k])

(* The deduplication loop over drafts[1..k]: a draft is appended when its
   key was not seen before it. *)
RECURSIVE Unique(_, _)
Unique(drafts, k) ==
    IF k = 0 THEN <<>>
    ELSE IF \E j \in 1..(k - 1) : DraftKey(drafts[j]) = DraftKey(drafts[k])
         THEN Unique(drafts, k - 1)
         ELSE Append(Unique(drafts, k - 1), drafts[k])

(* _generate_eval_drafts(insights, cur); cur is not read. *)
generate_eval_drafts(insights) ==
    Unique(CandidateDrafts(insights), Len(CandidateDrafts(insights)))

-----------------------------------------------------------------------------
(* The synthesizer specification: lists of insights of any make, held as
   the all_insights the generators have built, and _generate_eval_drafts
   called on them. *)

MaxInsights == 2    \* insights of a list of the synthesizer specification

DraftMetrics ==
    {"total_visitors", "cost per visitor", "program participation rate",
     "budget recovery", "press_count", "total_budget"}

(* Deviations from a reference mean of 1, in per cent: the thresholds 15,
   -15 and -20 of the synthesizer and values on either side of them. *)
DraftDiffs == {-30, -20, -18, -15, -12, 15, 20}

(* An insight as far as the synthesizer reads it. *)
DraftInsight(metric_name, current_value, reference_avg) ==
    Insight("", "", "", [template |-> ""], metric_name, current_value, reference_avg,
            None, None, None, 2)

DraftInsights ==
    {DraftInsight(m, Q(100 + d, 100), QInt(1)) : m \in DraftMetrics, d \in DraftDiffs}
        \cup {DraftInsight("total_visitors", QInt(2), QInt(0)),
              DraftInsight("total_visitors", QInt(2), None),
              DraftInsight("press-visitor relation", None, None),
              DraftInsight("cost per visitor", QInt(-3), QInt(-2))}

InitDrafts ==
    /\ ref_df = EmptyFrame
    /\ current_data = NoCurrent
    /\ stats = None
    /\ \E insights \in SeqsUpTo(DraftInsights, MaxInsights) :
           call = [op |-> "all_insights", insights |-> insights]

GenerateEvalDrafts ==
    /\ call.op = "all_insights"
    /\ call' = [op |-> "_generate_eval_drafts", insights |-> call.insights,
                drafts |-> CandidateDrafts(call.insights),
                ret |-> generate_eval_drafts(call.insights)]
    /\ UNCHANGED <<ref_df, current_data, stats>>

NextDrafts == GenerateEvalDrafts

SpecDrafts == InitDrafts /\ [][NextDrafts]_vars

-----------------------------------------------------------------------------
(* The category generators: _analyze_visitors ... _analyze_cross *)

(* Column and metric names: "student_visitors" = "학생 관객수(만 24세 이하)",
   "artpass_visitors" = "예술인패스 관객수", "exhibition_budget" = "전시 사용
   예산", "sns_posts" = "SNS 게시 건수", "staff_total" = "운영 인력_총",
   "artworks_painting" ... "artworks_other" = "출품 작품 수_회화" ... "출품
   작품 수_기타"; a metric name that differs from its column is written with
   spaces ("student visitors" = "학생 관객수"). *)

(* cur.get(field) *)
CurGet(cur, field) == IF field \in DOMAIN cur THEN cur[field] ELSE None

(* Series.dropna() *)
dropna(s) == SelectSeq(s, notna)

(* float(valid.mean()) of a series that has a value *)
SeriesMean(valid) == QDiv(QSum(valid), QInt(Len(valid)))

(* np.where(den > 0, num / den, np.nan): the ratio of two columns, row by
   row; a missing numerator makes a missing ratio. *)
RatioColumn(df, num, den) ==
    [i \in 1..Len(df.rows) |->
        IF notna(df.rows[i][den]) /\ QLt(QInt(0), df.rows[i][den]) /\ notna(df.rows[i][num])
        THEN QDiv(df.rows[i][num], df.rows[i][den])
        ELSE NaN]

(* What a generator does: the insights it returns, or the exception it
   raises. *)
Returned(insights) == [raised |-> "", insights |-> insights]
Raised(error) == [raised |-> error, insights |-> <<>>]

(* Two steps of a generator one after the other. *)
AndThen(a, b) ==
    IF a.raised # "" THEN a
    ELSE IF b.raised # "" THEN b
    ELSE Returned(a.insights \o b.insights)

(* `v = cur.get(field); if v: ins = _make_insight(...); if ins:
   insights.append(ins)`: nothing, or the one insight. *)
BaseInsight(cur, df, field, category, section, title, metric_name, higher_is_better, priority, gl) ==
    IF Truthy(CurGet(cur, field))
    THEN make_insight(category, section, title, metric_name, CurGet(cur, field),
                      compute_stats(df, field), higher_is_better, priority, gl)
    ELSE <<>>

(* The same behind `s_stats and s_stats.count >= 3`. *)
GatedInsight(cur, df, field, category, section, title, metric_name, priority, gl) ==
    IF compute_stats(df, field) # None /\ Get(compute_stats(df, field)).count >= 3
    THEN make_insight(category, section, title, metric_name, CurGet(cur, field),
                      compute_stats(df, field), TRUE, priority, gl)
    ELSE <<>>

(* An Insight of a generator's own make: no percentile, no total_count. *)
OwnInsight(category, section, title, text, metric_name, current_value, reference_avg, rank, priority) ==
    Insight(category, section, title, text, metric_name, current_value, reference_avg,
            None, rank, None, priority)

(* x as a percentage to one decimal: f"{x*100:.1f}%". *)
Pct1(x) == Fixed1(QMul(x, QInt(100)))

(* The paid-ratio block of _analyze_visitors. *)
PaidRatioInsight(cur, df, gl) ==
    LET paid == CurGet(cur, "paid_visitors")
        total == CurGet(cur, "total_visitors")
        ratio == QDiv(paid, total)
        valid == dropna(Column(df, "paid_ratio"))
        avg_r == SeriesMean(valid)
    IN  IF Truthy(paid) /\ Truthy(total) /\ QLt(QInt(0), total) /\ "paid_ratio" \in df.columns
        THEN IF Len(valid) >= 3
             THEN <<OwnInsight("audience", "results", "paid visitor ratio",
                               [template |-> "paid_ratio", ratio |-> Pct1(ratio),
                                group_label |-> gl, avg |-> Pct1(avg_r),
                                gap |-> Pct1(QAbs(QSub(ratio, avg_r))),
                                word |-> IF QLt(avg_r, ratio) THEN "higher" ELSE "lower"],
                               "paid visitor ratio", ratio, avg_r, None, 2)>>
             ELSE <<>>
        ELSE <<>>

(* The student block of _analyze_visitors. *)
StudentInsight(cur, df, gl) ==
    LET student == CurGet(cur, "student_visitors")
        total == CurGet(cur, "total_visitors")
    IN  IF Truthy(student) /\ Truthy(total) /\ QLt(QInt(0), total)
        THEN GatedInsight(cur, df, "student_visitors", "audience", "results",
                          "student visitors", "student visitors", 3, gl)
        ELSE <<>>

(* The artist-pass block of _analyze_visitors. *)
ArtpassInsight(cur, df, gl) ==
    LET artpass == CurGet(cur, "artpass_visitors")
    IN  IF Truthy(artpass) /\ QLt(QInt(0), artpass)
        THEN GatedInsight(cur, df, "artpass_visitors", "audience", "results",
                          "artist pass visitors", "artpass_visitors", 3, gl)
        ELSE <<>>

(* _analyze_visitors(cur, df, gl) *)
analyze_visitors(cur, df, gl) ==
    Returned(BaseInsight(cur, df, "total_visitors", "audience", "results",
                         "total_visitors", "total_visitors", TRUE, 1, gl)
             \o BaseInsight(cur, df, "daily_visitors", "audience", "results",
                            "daily_visitors", "daily_visitors", TRUE, 2, gl)
             \o PaidRatioInsight(cur, df, gl)
             \o StudentInsight(cur, df, gl)
             \o ArtpassInsight(cur, df, gl))

(* The cost-per-visitor block of _analyze_budget: the division by
   abs(avg_c) raises ZeroDivisionError when the mean is 0. *)
CostPerVisitorInsight(cur, df, gl) ==
    LET budget == CurGet(cur, "total_budget")
        visitors == CurGet(cur, "total_visitors")
        cost == QDiv(budget, visitors)
        valid == dropna(Column(df, "cost_per_visitor"))
        avg_c == SeriesMean(valid)
        diff == DiffPct(cost, avg_c)
        rank == IF compute_stats(df, "cost_per_visitor") # None
                THEN Some(compute_rank(compute_stats(df, "cost_per_visitor"), cost, TRUE))
                ELSE None
    IN  IF Truthy(budget) /\ Truthy(visitors) /\ QLt(QInt(0), visitors)
               /\ "cost_per_visitor" \in df.columns
        THEN IF Len(valid) >= 3
             THEN IF avg_c = QInt(0) THEN Raised("ZeroDivisionError")
                  ELSE Returned(<<OwnInsight("budget", "results", "cost per visitor",
                                   [template |-> "cost_per_visitor", cost |-> cost,
                                    group_label |-> gl, avg |-> avg_c,
                                    abs_diff |-> Fixed1(QAbs(diff)),
                                    direction |-> direction_verb(diff),
                                    quality |-> quality_word(diff, FALSE)],
                                   "cost per visitor", cost, avg_c, rank, 1)>>)
             ELSE Returned(<<>>)
        ELSE Returned(<<>>)

(* The budget-structure block of _analyze_budget. *)
BudgetStructureInsight(cur, df, gl) ==
    LET exh_budget == CurGet(cur, "exhibition_budget")
        budget == CurGet(cur, "total_budget")
        exh_ratio == QDiv(exh_budget, budget)
        valid == dropna(RatioColumn(df, "exhibition_budget", "total_budget"))
        avg_r == SeriesMean(valid)
    IN  IF Truthy(exh_budget) /\ Truthy(budget) /\ QLt(QInt(0), budget)
        THEN IF "exhibition_budget" \in df.columns /\ "total_budget" \in df.columns
             THEN IF Len(valid) >= 3
                  THEN <<OwnInsight("budget", "results", "budget structure",
                                    [template |-> "budget_structure", ratio |-> Pct1(exh_ratio),
                                     group_label |-> gl, avg |-> Pct1(avg_r),
                                     word |-> IF QLt(avg_r, exh_ratio)
                                              THEN "exhibition" ELSE "supporting"],
                                    "exhibition cost ratio", exh_ratio, avg_r, None, 3)>>
                  ELSE <<>>
             ELSE <<>>
        ELSE <<>>

(* The revenue-to-budget block of _analyze_budget. *)
RecoveryInsight(cur, df, gl) ==
    LET budget == CurGet(cur, "total_budget")
        revenue == CurGet(cur, "total_revenue")
        ratio == QDiv(revenue, budget)
        valid == dropna(Column(df, "revenue_budget_ratio"))
        avg_r == SeriesMean(valid)
    IN  IF Truthy(budget) /\ Truthy(revenue) /\ QLt(QInt(0), budget)
               /\ "revenue_budget_ratio" \in df.columns
        THEN IF Len(valid) >= 3
             THEN <<OwnInsight("budget", "results", "budget recovery",
                               [template |-> "recovery", ratio |-> Pct1(ratio),
                                group_label |-> gl, avg |-> Pct1(avg_r),
                                word |-> IF QLt(avg_r, ratio) THEN "above" ELSE "below"],
                               "budget recovery", ratio, avg_r, None, 1)>>
             ELSE <<>>
        ELSE <<>>

(* _analyze_budget(cur, df, gl) *)
analyze_budget(cur, df, gl) ==
    AndThen(Returned(BaseInsight(cur, df, "total_budget", "budget", "results",
                                 "total_budget", "total_budget", TRUE, 2, gl)),
            AndThen(CostPerVisitorInsight(cur, df, gl),
                    Returned(BudgetStructureInsight(cur, df, gl)
                             \o RecoveryInsight(cur, df, gl))))

(* The participation-rate block of _analyze_programs. *)
ParticipationInsight(cur, df, gl) ==
    LET participants == CurGet(cur, "program_participants")
        visitors == CurGet(cur, "total_visitors")
        rate == QDiv(participants, visitors)
        valid == dropna(Column(df, "program_rate"))
        avg_r == SeriesMean(valid)
    IN  IF Truthy(participants) /\ Truthy(visitors) /\ QLt(QInt(0), visitors)
               /\ "program_rate" \in df.columns
        THEN IF Len(valid) >= 3
             THEN <<OwnInsight("program", "composition", "program participation rate",
                               [template |-> "participation", ratio |-> Pct1(rate),
                                group_label |-> gl, avg |-> Pct1(avg_r),
                                gap |-> Pct1(QAbs(QSub(rate, avg_r))),
                                word |-> IF QLt(avg_r, rate) THEN "higher" ELSE "lower"],
                               "program participation rate", rate, avg_r, None, 1)>>
             ELSE <<>>
        ELSE <<>>

(* _analyze_programs(cur, df, gl) *)
analyze_programs(cur, df, gl) ==
    Returned(BaseInsight(cur, df, "program_count", "program", "composition",
                         "program count", "program count", TRUE, 2, gl)
             \o BaseInsight(cur, df, "program_participants", "program", "composition",
                            "program_participants", "program_participants", TRUE, 2, gl)
             \o ParticipationInsight(cur, df, gl))

(* media_fields: the column of each medium and its label, in order. *)
media_fields ==
    << [field |-> "artworks_painting", label |-> "painting"],
       [field |-> "artworks_sculpture", label |-> "sculpture"],
       [field |-> "artworks_photo", label |-> "photo"],
       [field |-> "artworks_installation", label |-> "installation"],
       [field |-> "artworks_media", label |-> "media"],
       [field |-> "artworks_other", label |-> "other"] >>

(* `v = cur.get(field, 0) or 0` *)
MediaCount(cur, field) ==
    IF Truthy(CurGet(cur, field)) THEN CurGet(cur, field) ELSE QInt(0)

(* The keys of current_media, as positions of media_fields: the media whose
   count is positive. *)
current_media(cur) ==
    {k \in 1..Len(media_fields) : QLt(QInt(0), MediaCount(cur, media_fields[k].field))}

(* max(current_media, key=current_media.get): the first, in insertion
   order, of the media with the largest count. *)
Dominant(cur) ==
    CHOOSE k \in current_media(cur) :
        /\ \A j \in current_media(cur) :
               QLe(MediaCount(cur, media_fields[j].field), MediaCount(cur, media_fields[k].field))
        /\ \A j \in current_media(cur) :
               j < k => QLt(MediaCount(cur, media_fields[j].field),
                            MediaCount(cur, media_fields[k].field))

(* The share of a medium in each row of the corpus. *)
MediaRatios(df, k) == dropna(RatioColumn(df, media_fields[k].field, "artworks_total"))

(* The keys of ref_avg_composition: the media with at least 3 valid ratio
   rows. *)
RefMedia(df) ==
    {k \in 1..Len(media_fields) :
        /\ media_fields[k].field \in df.columns
        /\ "artworks_total" \in df.columns
        /\ Len(MediaRatios(df, k)) >= 3}

(* ref_avg_composition.get(dominant, 0) *)
RefDominantPct(df, k) ==
    IF k \in RefMedia(df) THEN QMul(SeriesMean(MediaRatios(df, k)), QInt(100)) ELSE QInt(0)

(* The composition block of _analyze_artworks; "above" = "높은", "below" =
   "낮은", and comparison is "" when the sentence of the comparison is not
   added. *)
CompositionInsight(cur, df, gl) ==
    LET total == CurGet(cur, "artworks_total")
        dominant == Dominant(cur)
        dominant_pct == QMul(QDiv(MediaCount(cur, media_fields[dominant].field), total),
                             QInt(100))
        ref_dominant_pct == RefDominantPct(df, dominant)
        text == [template |-> "media_composition",
                 parts |-> [k \in current_media(cur) |->
                               [label |-> media_fields[k].label,
                                count |-> MediaCount(cur, media_fields[k].field),
                                pct |-> Fixed0(QMul(QDiv(MediaCount(cur, media_fields[k].field),
                                                         total), QInt(100)))]],
                 dominant |-> media_fields[dominant].label,
                 group_label |-> gl,
                 comparison |-> IF ~QLt(QInt(0), ref_dominant_pct) THEN ""
                                ELSE IF QLt(ref_dominant_pct, dominant_pct) THEN "above"
                                ELSE "below"]
    IN  IF Truthy(total) /\ QLt(QInt(0), total) /\ current_media(cur) # {} /\ RefMedia(df) # {}
        THEN <<OwnInsight("artwork", "composition", "media composition", text,
                          "media composition", dominant_pct, ref_dominant_pct, None, 2)>>
        ELSE <<>>

(* _analyze_artworks(cur, df, gl) *)
analyze_artworks(cur, df, gl) ==
    Returned(BaseInsight(cur, df, "artworks_total", "artwork", "composition",
                         "artworks", "artworks", TRUE, 2, gl)
             \o CompositionInsight(cur, df, gl))

(* The visitors-per-press block of _analyze_promotion: the division by
   abs(avg) raises ZeroDivisionError when the mean is 0. *)
VisitorsPerPressInsight(cur, df, gl) ==
    LET press == CurGet(cur, "press_count")
        visitors == CurGet(cur, "total_visitors")
        vpc == QDiv(visitors, press)
        valid == dropna(Column(df, "visitors_per_press"))
        avg == SeriesMean(valid)
        diff == DiffPct(vpc, avg)
    IN  IF Truthy(press) /\ Truthy(visitors) /\ QLt(QInt(0), press)
               /\ "visitors_per_press" \in df.columns
        THEN IF Len(valid) >= 3
             THEN IF avg = QInt(0) THEN Raised("ZeroDivisionError")
                  ELSE Returned(<<OwnInsight("promotion", "promotion", "visitors per press",
                                   [template |-> "visitors_per_press", vpc |-> vpc,
                                    group_label |-> gl, avg |-> avg,
                                    abs_diff |-> Fixed1(QAbs(diff)),
                                    direction |-> direction_verb(diff)],
                                   "visitors per press", vpc, avg, None, 1)>>)
             ELSE Returned(<<>>)
        ELSE Returned(<<>>)

(* _analyze_promotion(cur, df, gl) *)
analyze_promotion(cur, df, gl) ==
    AndThen(Returned(BaseInsight(cur, df, "press_count", "promotion", "promotion",
                                 "press coverage", "press_count", TRUE, 2, gl)),
            AndThen(VisitorsPerPressInsight(cur, df, gl),
                    Returned(BaseInsight(cur, df, "sns_posts", "promotion", "promotion",
                                         "sns activity", "sns_posts", TRUE, 3, gl))))

(* _analyze_staff(cur, df, gl): the division by abs(avg) raises
   ZeroDivisionError when the mean is 0. *)
analyze_staff(cur, df, gl) ==
    LET staff == CurGet(cur, "staff_total")
        visitors == CurGet(cur, "total_visitors")
        v_per_staff == QDiv(visitors, staff)
        valid == dropna(RatioColumn(df, "total_visitors", "staff_total"))
        avg == SeriesMean(valid)
        diff == DiffPct(v_per_staff, avg)
    IN  IF Truthy(staff) /\ Truthy(visitors) /\ QLt(QInt(0), staff)
        THEN IF "staff_total" \in df.columns /\ "total_visitors" \in df.columns
             THEN IF Len(valid) >= 3
                  THEN IF avg = QInt(0) THEN Raised("ZeroDivisionError")
                       ELSE Returned(<<OwnInsight("staff", "composition", "visitors per staff",
                                        [template |-> "visitors_per_staff",
                                         v_per_staff |-> v_per_staff,
                                         group_label |-> gl, avg |-> avg,
                                         abs_diff |-> Fixed1(QAbs(diff)),
                                         direction |-> direction_verb(diff)],
                                        "visitors per staff", v_per_staff, avg, None, 3)>>)
                  ELSE Returned(<<>>)
             ELSE Returned(<<>>)
        ELSE Returned(<<>>)

(* The budget-against-visitors block of _analyze_cross. *)
EfficiencyInsight(cur, df, gl) ==
    LET budget == CurGet(cur, "total_budget")
        visitors == CurGet(cur, "total_visitors")
        b_diff == diff_pct_of(budget, compute_stats(df, "total_budget"))
        v_diff == diff_pct_of(visitors, compute_stats(df, "total_visitors"))
        cost == QDiv(budget, visitors)
        c_stats == IF "cost_per_visitor" \in df.columns
                   THEN compute_stats(df, "cost_per_visitor") ELSE None
        c_rank == compute_rank(c_stats, cost, TRUE)
    IN  IF Truthy(budget) /\ Truthy(visitors) /\ QLt(QInt(0), visitors)
               /\ b_diff # None /\ v_diff # None
        THEN IF c_stats # None /\ Get(c_stats).count >= 3
             THEN IF QLt(b_diff, QInt(-5)) /\ QLt(QInt(5), v_diff)
                  THEN <<OwnInsight("cross", "evaluation", "audience efficiency of the budget",
                                    [template |-> "efficient", group_label |-> gl,
                                     b_diff |-> Fixed0(QAbs(b_diff)),
                                     v_diff |-> Fixed0(QAbs(v_diff)), cost |-> cost,
                                     count |-> Get(c_stats).count, rank |-> c_rank],
                                    "budget-visitor efficiency", cost, None, None, 1)>>
                  ELSE IF QLt(QInt(10), b_diff) /\ QLt(v_diff, QInt(-5))
                  THEN <<OwnInsight("cross", "evaluation", "audience efficiency of the budget",
                                    [template |-> "inefficient", group_label |-> gl,
                                     b_diff |-> Fixed0(QAbs(b_diff)),
                                     v_diff |-> Fixed0(QAbs(v_diff)), cost |-> cost],
                                    "budget-visitor inefficiency", cost, None, None, 1)>>
                  ELSE <<>>
             ELSE <<>>
        ELSE <<>>

(* The press-against-visitors block of _analyze_cross. *)
PressChannelInsight(cur, df, gl) ==
    LET press == CurGet(cur, "press_count")
        visitors == CurGet(cur, "total_visitors")
        v_diff == diff_pct_of(visitors, compute_stats(df, "total_visitors"))
        p_diff == diff_pct_of(press, compute_stats(df, "press_count"))
    IN  IF Truthy(press) /\ Truthy(visitors) /\ p_diff # None /\ v_diff # None
        THEN IF QLt(p_diff, QInt(-10)) /\ QLt(QInt(5), v_diff)
             THEN <<OwnInsight("cross", "evaluation", "effect of the promotion channels",
                               [template |-> "press_channel", group_label |-> gl,
                                p_diff |-> Fixed0(QAbs(p_diff)),
                                v_diff |-> Fixed0(QAbs(v_diff))],
                               "press-visitor relation", None, None, None, 2)>>
             ELSE <<>>
        ELSE <<>>

(* The revenue-against-budget block of _analyze_cross. *)
RecoveryExceededInsight(cur, df, gl) ==
    LET revenue == CurGet(cur, "total_revenue")
        budget == CurGet(cur, "total_budget")
        recovery == QDiv(revenue, budget)
        r_series == IF "revenue_budget_ratio" \in df.columns
                    THEN dropna(Column(df, "revenue_budget_ratio")) ELSE <<>>
        avg_r == SeriesMean(r_series)
    IN  IF Truthy(revenue) /\ Truthy(budget) /\ QLt(QInt(0), budget)
        THEN IF Len(r_series) >= 3
             THEN IF QLt(QInt(1), recovery) /\ QLt(avg_r, QInt(1))
                  THEN <<OwnInsight("cross", "evaluation", "budget recovery exceeded",
                                    [template |-> "recovery_exceeded", revenue |-> revenue,
                                     budget |-> budget, recovery |-> Pct1(recovery),
                                     group_label |-> gl, avg |-> Pct1(avg_r)],
                                    "budget recovery", recovery, avg_r, None, 1)>>
                  ELSE <<>>
             ELSE <<>>
        ELSE <<>>

(* _analyze_cross(cur, df, gl) *)
analyze_cross(cur, df, gl) ==
    Returned(EfficiencyInsight(cur, df, gl)
             \o PressChannelInsight(cur, df, gl)
             \o RecoveryExceededInsight(cur, df, gl))

(* all_insights after the seven extend() calls, or the exception of the
   first generator that raises. *)
all_insights_of(cur, df, gl) ==
    AndThen(analyze_visitors(cur, df, gl),
    AndThen(analyze_budget(cur, df, gl),
    AndThen(analyze_programs(cur, df, gl),
    AndThen(analyze_artworks(cur, df, gl),
    AndThen(analyze_promotion(cur, df, gl),
    AndThen(analyze_staff(cur, df, gl),
            analyze_cross(cur, df, gl)))))))

(* The mutant: insights of equal priority are put in reverse. *)
RECURSIVE sort_by_priority_reversing(_)
sort_by_priority_reversing(insights) ==
    IF insights = <<>> THEN <<>>
    ELSE LET rest == sort_by_priority_reversing(Tail(insights))
             before == SelectSeq(rest, LAMBDA x : x.priority <= insights[1].priority)
             after == SelectSeq(rest, LAMBDA x : x.priority > insights[1].priority)
         IN  before \o <<insights[1]>> \o after

(* all_insights.sort(key=lambda x: x.priority): a stable insertion sort,
   each insight put ahead of the insights of greater priority only. *)
RECURSIVE sort_by_priority(_)
sort_by_priority(insights) ==
    IF insights = <<>> THEN <<>>
    ELSE LET rest == sort_by_priority(Tail(insights))
             before == SelectSeq(rest, LAMBDA x : x.priority < insights[1].priority)
             after == SelectSeq(rest, LAMBDA x : x.priority >= insights[1].priority)
         IN  before \o <<insights[1]>> \o after

-----------------------------------------------------------------------------
(* The orchestrator: generate_all_insights *)

(* COMPARISON_FIELDS: "daily_visitors" = "일평균 관객수", "program_count" =
   "프로그램 총 수", "artworks_total" = "출품 작품 수_총". *)
COMPARISON_FIELDS ==
    {"total_visitors", "daily_visitors", "total_budget", "program_count",
     "press_count", "artworks_total"}

(* The SimilarExhibitionRow of a row of sim_df. *)
SimilarExhibitionRow(row) ==
    [title |-> row[TITLE_COL],
     similarity |-> IF SCORE_COL \in DOMAIN row THEN row[SCORE_COL] ELSE QInt(0),
     metrics |-> [f \in {g \in COMPARISON_FIELDS \cap DOMAIN row : notna(row[g])} |-> row[f]]]

(* The rows _build_similar makes of sim_df. *)
build_similar_rows(sim_df) ==
    IF IsEmpty(sim_df) THEN <<>>
    ELSE [k \in 1..Len(sim_df.rows) |-> SimilarExhibitionRow(sim_df.rows[k])]

(* gl: "동일 유형(...)" or "역대". *)
group_label(df_full, df_typed, exhibition_type) ==
    IF Len(df_typed.rows) < Len(df_full.rows)
    THEN <<"same_type", get_type_label(exhibition_type)>>
    ELSE <<"all_time">>

(* The generators of generate_all_insights run on df_typed: what they
   return together, or the exception one of them raises. *)
generated(df_full, current, exhibition_type) ==
    LET df_typed == filter_by_type(df_full, exhibition_type)
    IN  all_insights_of(current, df_typed, group_label(df_full, df_typed, exhibition_type))

(* generate_all_insights when nothing raises: the AnalysisResult (insights,
   eval_drafts, similar_exhibitions), with the locals it was made from:
   df_full, df_typed, is_filtered, the group label, the budget and visitor
   statistics of _analyze_cross, and all_insights before the sort. *)
analysis_tables(df_full, exhibition_type, all_insights, sim_df) ==
    LET df_typed == filter_by_type(df_full, exhibition_type)
        is_filtered == Len(df_typed.rows) < Len(df_full.rows)
    IN  [df_full |-> df_full,
         df_typed |-> df_typed,
         is_filtered |-> is_filtered,
         gl |-> group_label(df_full, df_typed, exhibition_type),
         b_stats |-> compute_stats(df_typed, "total_budget"),
         v_stats |-> compute_stats(df_typed, "total_visitors"),
         all_insights |-> all_insights,
         insights |-> sort_by_priority(all_insights),
         eval_drafts |-> generate_eval_drafts(all_insights),
         similar_exhibitions |-> build_similar_rows(sim_df)]

-----------------------------------------------------------------------------
(* The type specification: tables with a type column, the type filters and
   the orchestrator called on them. *)

TypeRows == 3       \* rows of a table of the type specification
MaxType == 2        \* largest type of a cell

TypeCells == {NaN} \cup {QInt(k) : k \in 0..MaxType}

(* Tables with two types besides the excluded one, and one with three rows
   of the excluded type. *)
TypeExamples ==
    { <<QInt(1), QInt(2), QInt(1), QInt(0), QInt(1), QInt(2)>>,
      <<QInt(2), QInt(0), QInt(2), NaN, QInt(2), QInt(1)>>,
      <<QInt(0), QInt(0), QInt(0), QInt(1)>> }

(* Row i of a table of the type specification, without its type. *)
TypeRow(i) ==
    [c \in {TITLE_COL} \cup DerivedInputs |->
        IF c = TITLE_COL THEN i
        ELSE IF c = "total_visitors" THEN (IF i = 2 THEN QInt(0) ELSE QInt(i))
        ELSE IF c = "total_budget" THEN QInt(i + 1)
        ELSE IF c = "total_revenue" THEN QInt(2)
        ELSE IF c = "paid_visitors" THEN (IF i = 1 THEN NaN ELSE QInt(1))
        ELSE IF c = "press_count" THEN (IF i = 3 THEN NaN ELSE QInt(i \div 2))
        ELSE QInt(i)]

TypeTable(types) ==
    DataFrame({TITLE_COL, EXHIBITION_TYPE_COL} \cup DerivedInputs,
              [i \in 1..Len(types) |-> TypeRow(i) @@ (EXHIBITION_TYPE_COL :> types[i])])

(* The same rows without the type column. *)
UntypedTable(n) ==
    DataFrame({TITLE_COL} \cup DerivedInputs, [i \in 1..n |-> TypeRow(i)])

(* A table without the press column, which compute_derived_metrics reads. *)
NoPressTable(types) ==
    DataFrame({TITLE_COL, EXHIBITION_TYPE_COL} \cup (DerivedInputs \ {"press_count"}),
              [i \in 1..Len(types) |->
                  [c \in {TITLE_COL, EXHIBITION_TYPE_COL} \cup (DerivedInputs \ {"press_count"}) |->
                      IF c = EXHIBITION_TYPE_COL THEN types[i] ELSE TypeRow(i)[c]]])

TypeTables ==
    {TypeTable(types) : types \in SeqsUpTo(TypeCells, TypeRows) \cup TypeExamples}
        \cup {UntypedTable(n) : n \in {2, TypeRows}}
        \cup {NoPressTable(types) : types \in TypeExamples}

ExhibitionTypes ==
    {NoType, TextType} \cup {NumType(QInt(k)) : k \in 0..(MaxType + 1)}

TypeCurrent == [f \in {"total_budget", "total_visitors"} |-> QInt(3)]

InitType ==
    /\ ref_df \in TypeTables
    /\ current_data = TypeCurrent
    /\ stats = None
    /\ call = [op |-> "load_reference"]

ExcludeTypeZero ==
    /\ Loaded
    /\ call' = [op |-> "exclude_type_zero", ret |-> exclude_type_zero(ref_df)]
    /\ UNCHANGED <<ref_df, current_data, stats>>

FilterByType(exhibition_type) ==
    /\ Loaded
    /\ call' = [op |-> "filter_by_type", exhibition_type |-> exhibition_type,
                ret |-> filter_by_type(ref_df, exhibition_type)]
    /\ UNCHANGED <<ref_df, current_data, stats>>

GenerateAllInsights(exhibition_type) ==
    /\ Loaded
    /\ IF ~(DerivedInputs \subseteq ref_df.columns)
       THEN call' = [op |-> "generate_all_insights",
                     exhibition_type |-> exhibition_type,
                     raised |-> "KeyError"]
       ELSE LET df_full == compute_derived_metrics(exclude_type_zero(ref_df))
                all_insights == generated(df_full, current_data, exhibition_type)
            IN  IF all_insights.raised # ""
                THEN call' = [op |-> "generate_all_insights",
                              exhibition_type |-> exhibition_type,
                              raised |-> all_insights.raised]
                ELSE \E sim_df \in get_similar_exhibitions(df_full, current_data,
                                                           TOP_N_DEFAULT) :
                         call' = [op |-> "generate_all_insights",
                                  exhibition_type |-> exhibition_type,
                                  raised |-> "",
                                  ret |-> analysis_tables(df_full, exhibition_type,
                                                          all_insights.insights, sim_df)]
    /\ UNCHANGED <<ref_df, current_data, stats>>

NextType ==
    \/ ExcludeTypeZero
    \/ \E exhibition_type \in ExhibitionTypes : FilterByType(exhibition_type)
    \/ \E exhibition_type \in ExhibitionTypes : GenerateAllInsights(exhibition_type)

SpecType == InitType /\ [][NextType]_vars

-----------------------------------------------------------------------------
(* The insight specification: tables with every column the generators
   read, current records, and the orchestrator called on them. *)

InsightRows == 4    \* rows of the largest table of the insight specification

MediaColumns == {media_fields[k].field : k \in 1..Len(media_fields)}

InsightColumns ==
    {TITLE_COL, EXHIBITION_TYPE_COL} \cup DerivedInputs
        \cup {"daily_visitors", "student_visitors", "artpass_visitors", "exhibition_budget",
              "program_count", "artworks_total", "sns_posts", "staff_total"}

(* How the visitor, budget and press columns of a table are filled: "ramp"
   has i visitors in row i; "flat" the same numbers in every row; "free" no
   budget; "unpressed" a press count in the first two rows only;
   "unvisited" no visitors. *)
MoneyKinds == {"ramp", "flat", "free", "unpressed", "unvisited"}

(* How the artwork columns are filled: "half" has half of the works
   painted and half sculpted; "sculpted" has sculptures only; "uncounted"
   has a total in the first two rows only; "absent" has no column of a
   medium. *)
MediaKinds == {"half", "sculpted", "uncounted", "absent"}

(* The cell of column c in row i. *)
InsightCell(c, i, money, media) ==
    IF c = TITLE_COL THEN i
    ELSE IF c = EXHIBITION_TYPE_COL THEN (IF i > 3 THEN QInt(2) ELSE QInt(1))
    ELSE IF c = "total_visitors"
         THEN (IF money = "ramp" THEN QInt(i) ELSE IF money = "unvisited" THEN QInt(0)
               ELSE QInt(2))
    ELSE IF c = "total_budget" THEN (IF money = "free" THEN QInt(0) ELSE QInt(2))
    ELSE IF c = "press_count" THEN (IF money = "unpressed" /\ i > 2 THEN NaN ELSE QInt(2))
    ELSE IF c = "artpass_visitors" THEN (IF i = 1 THEN NaN ELSE QInt(i))
    ELSE IF c \in {"daily_visitors", "student_visitors", "program_count", "sns_posts"}
         THEN QInt(i)
    ELSE IF c = "artworks_total"
         THEN (IF media = "uncounted" /\ i > 2 THEN QInt(0) ELSE QInt(2 * i))
    ELSE IF c = "artworks_painting" THEN (IF media = "sculpted" THEN QInt(0) ELSE QInt(i))
    ELSE IF c = "artworks_sculpture" THEN (IF media = "sculpted" THEN QInt(2 * i) ELSE QInt(i))
    ELSE IF c \in MediaColumns THEN QInt(0)
    ELSE QInt(1)

InsightTable(n, money, media) ==
    LET columns == InsightColumns \cup (IF media = "absent" THEN {} ELSE MediaColumns)
    IN  DataFrame(columns,
                  [i \in 1..n |-> [c \in columns |-> InsightCell(c, i, money, media)]])

(* The table without one of its columns. *)
WithoutColumn(df, column) ==
    DataFrame(df.columns \ {column},
              [i \in 1..Len(df.rows) |-> [c \in df.columns \ {column} |-> df.rows[i][c]]])

(* The tables of every size and filling, and one whose file has no revenue
   column. *)
InsightTables ==
    {InsightTable(n, money, media) :
        n \in {2, 3, InsightRows}, money \in MoneyKinds, media \in MediaKinds}
        \cup {WithoutColumn(InsightTable(3, "ramp", "half"), "total_revenue")}

(* A current record from a function of some of its fields to integers. *)
CurrentOf(f) == [c \in DOMAIN f |-> QInt(f[c])]

(* The record of the worked example of the composition: 40 paintings and
   10 sculptures of 50 works; its cost per visitor is 1. *)
ExampleCurrent ==
    CurrentOf("total_visitors" :> 3 @@ "total_budget" :> 3 @@ "total_revenue" :> 4 @@
              "paid_visitors" :> 1 @@ "program_participants" :> 1 @@ "press_count" :> 1 @@
              "daily_visitors" :> 2 @@ "student_visitors" :> 1 @@ "artpass_visitors" :> 1 @@
              "exhibition_budget" :> 2 @@ "program_count" :> 2 @@ "sns_posts" :> 2 @@
              "staff_total" :> 1 @@ "artworks_total" :> 50 @@ "artworks_painting" :> 40 @@
              "artworks_sculpture" :> 10)

(* A record on the cut points of the cross-metric rules against a corpus
   whose means are 2: the budget 5 % below, the visitors 5 % above and the
   press count 10 % below. *)
CutPointCurrent ==
    "total_visitors" :> Q(21, 10) @@ "total_budget" :> Q(19, 10) @@ "press_count" :> Q(9, 5)

InsightCurrents ==
    { ExampleCurrent, CutPointCurrent,
      CurrentOf("total_visitors" :> 3 @@ "total_budget" :> 1 @@ "press_count" :> 1 @@
                "artworks_total" :> 2 @@ "artworks_painting" :> 1 @@ "artworks_sculpture" :> 1),
      CurrentOf("total_visitors" :> 1 @@ "total_budget" :> 3 @@ "press_count" :> 3 @@
                "staff_total" :> 1 @@ "artworks_total" :> 4 @@ "artworks_painting" :> 1 @@
                "artworks_sculpture" :> 3),
      CurrentOf("total_visitors" :> 3 @@ "press_count" :> 1),
      CurrentOf("total_visitors" :> 8 @@ "total_budget" :> 7),
      CurrentOf("total_visitors" :> 10 @@ "total_budget" :> 7),
      CurrentOf("total_visitors" :> 0 @@ "total_budget" :> 2 @@ "artworks_total" :> 2),
      CurrentOf("artworks_total" :> 2 @@ "artworks_photo" :> 2),
      NoCurrent }

InsightTypes == {NoType, NumType(QInt(1))}

InitInsights ==
    /\ ref_df \in InsightTables
    /\ current_data \in InsightCurrents
    /\ stats = None
    /\ call = [op |-> "load_reference"]

NextInsights == \E exhibition_type \in InsightTypes : GenerateAllInsights(exhibition_type)

SpecInsights == InitInsights /\ [][NextInsights]_vars

-----------------------------------------------------------------------------
(* The derived-metrics specification: tables with the six input columns,
   whose cells may be missing, zero or negative, and compute_derived_metrics
   called on them. *)

DerivedCells == {NaN, QInt(-1)} \cup {QInt(k) : k \in 0..MaxVal}

(* A row with visitors v, budget b, press count p, and x in each of the
   three columns that are only numerators. *)
DerivedInputRow(i, v, b, p, x) ==
    [c \in {TITLE_COL} \cup DerivedInputs |->
        IF c = TITLE_COL THEN i
        ELSE IF c = "total_visitors" THEN v
        ELSE IF c = "total_budget" THEN b
        ELSE IF c = "press_count" THEN p
        ELSE x]

DerivedTables ==
    {DataFrame({TITLE_COL} \cup DerivedInputs, <<DerivedInputRow(1, v, b, p, x)>>) :
        v \in DerivedCells, b \in DerivedCells, p \in DerivedCells, x \in DerivedCells}
    \cup {DataFrame({TITLE_COL} \cup DerivedInputs,
                    <<DerivedInputRow(1, v, QInt(1), NaN, QInt(1)),
                      DerivedInputRow(2, QInt(2), v, v, NaN)>>) : v \in DerivedCells}
    \cup {DataFrame({TITLE_COL} \cup DerivedInputs, <<>>), UntypedTable(2), NoPressTable(<<NaN>>)}

InitDerived ==
    /\ ref_df \in DerivedTables
    /\ current_data = NoCurrent
    /\ stats = None
    /\ call = [op |-> "load_reference"]

(* df[column] raises KeyError for a column the table does not have. *)
ComputeDerivedMetrics ==
    /\ Loaded
    /\ IF DerivedInputs \subseteq ref_df.columns
       THEN call' = [op |-> "compute_derived_metrics", raised |-> "",
                     ret |-> compute_derived_metrics(ref_df)]
       ELSE call' = [op |-> "compute_derived_metrics", raised |-> "KeyError"]
    /\ UNCHANGED <<ref_df, current_data, stats>>

NextDerived == ComputeDerivedMetrics

SpecDerived == InitDerived /\ [][NextDerived]_vars

-----------------------------------------------------------------------------
(* Properties of the statistics functions *)

NonMissing(df, column) == {i \in 1..Len(df.rows) : df.rows[i][column] # NaN}

(* The k-th smallest member of a set of row numbers. *)
KthOf(S, k) == CHOOSE i \in S : Cardinality({j \in S : j <= i}) = k

(* C1: compute_stats returns None exactly when the column is absent or has
   fewer than 2 non-missing cells; a FieldStats it returns has
   count = len(values) = len(titles), and values and titles are the
   non-missing cells, and the titles of their rows, in the table's row order. *)
C1_ComputeStatsContract ==
    call.op = "compute_stats" =>
        LET present == call.column \in ref_df.columns
            idx == IF present THEN NonMissing(ref_df, call.column) ELSE {}
        IN  /\ (stats = None) <=> (~present \/ Cardinality(idx) < 2)
            /\ stats # None =>
                /\ Get(stats).count = Cardinality(idx)
                /\ Get(stats).count = Len(Get(stats).values)
                /\ Get(stats).count = Len(Get(stats).titles)
                /\ \A k \in 1..Cardinality(idx) :
                    /\ Get(stats).values[k] = ref_df.rows[KthOf(idx, k)][call.column]
                    /\ Get(stats).titles[k] = ref_df.rows[KthOf(idx, k)][TITLE_COL]

(* A FieldStats of a column with a missing cell ahead of a present one. *)
C1_Witness ==
    /\ call.op = "compute_stats"
    /\ stats # None
    /\ \E i, j \in 1..Len(ref_df.rows) :
        /\ i < j
        /\ ref_df.rows[i][call.column] = NaN
        /\ ref_df.rows[j][call.column] # NaN

NumBelow(values, value) == Cardinality({i \in 1..Len(values) : QLt(values[i], value)})
NumEqual(values, value) == Cardinality({i \in 1..Len(values) : values[i] = value})
NumAbove(values, value) == Cardinality({i \in 1..Len(values) : QLt(value, values[i])})

(* C2: for available stats, compute_percentile returns
   (below + 0.5 * equal) / total * 100 rounded to a nearest integer (it lies
   within one half of the exact quotient), and the result is in 0..100. *)
C2_PercentileFormula ==
    (call.op = "compute_percentile" /\ stats # None) =>
        LET values == Get(stats).values
            n == Len(values)
            twice == 2 * NumBelow(values, call.value) + NumEqual(values, call.value)
        IN  /\ call.ret \in 0..100
            /\ AbsI(call.ret * 2 * n - twice * 100) <= n

(* A percentile whose exact value lies halfway between two integers. *)
C2_Witness ==
    /\ call.op = "compute_percentile"
    /\ stats # None
    /\ LET values == Get(stats).values
           twice == 2 * NumBelow(values, call.value) + NumEqual(values, call.value)
       IN  (twice * 100) % (2 * Len(values)) = Len(values)

(* C3: compute_percentile is monotonic over a fixed stats: a larger value
   never has a smaller percentile than the value just ranked. *)
C3_PercentileMonotonic ==
    (call.op = "compute_percentile" /\ stats # None) =>
        \A other \in QueryVals :
            /\ QLt(call.value, other) => call.ret <= compute_percentile(stats, other)
            /\ QLt(other, call.value) => compute_percentile(stats, other) <= call.ret

(* The value ranked is the corpus minimum, which two rows share, and a larger
   value has a strictly larger percentile. *)
C3_Witness ==
    /\ call.op = "compute_percentile"
    /\ stats # None
    /\ call.value = Get(stats).min_val
    /\ NumEqual(Get(stats).values, call.value) >= 2
    /\ \E other \in QueryVals :
        QLt(call.value, other) /\ call.ret < compute_percentile(stats, other)

(* C4, as stated: for the corpus 100, 100, 120, 150, 150 and the value 130,
   compute_percentile returns 40. *)
C4_PercentileExampleAsStated ==
    ( /\ call.op = "compute_percentile"
      /\ stats # None
      /\ Get(stats).values = ExampleValues
      /\ call.value = ExampleValue ) => call.ret = 40

(* C4, amended: three corpus values (100, 100, 120) lie below 130, so
   compute_percentile returns 3 / 5 * 100 = 60. *)
C4_PercentileExample ==
    ( /\ call.op = "compute_percentile"
      /\ stats # None
      /\ Get(stats).values = ExampleValues
      /\ call.value = ExampleValue ) =>
        /\ NumBelow(Get(stats).values, call.value) = 3
        /\ NumEqual(Get(stats).values, call.value) = 0
        /\ call.ret = 60

C4_Witness ==
    /\ call.op = "compute_percentile"
    /\ stats # None
    /\ Get(stats).values = ExampleValues
    /\ call.value = ExampleValue
    /\ call.ret = 60

IsMax(values, value) ==
    /\ \E i \in 1..Len(values) : values[i] = value
    /\ \A i \in 1..Len(values) : QLe(values[i], value)

IsMin(values, value) ==
    /\ \E i \in 1..Len(values) : values[i] = value
    /\ \A i \in 1..Len(values) : QLe(value, values[i])

(* C5: for available stats, compute_rank ranks the maximum observed value 1
   when descending and the minimum observed value 1 when ascending, and
   every rank lies in 1..count+1. *)
C5_RankExtremesAndRange ==
    (call.op = "compute_rank" /\ stats # None) =>
        /\ call.ret \in 1..(Get(stats).count + 1)
        /\ (~call.ascending /\ IsMax(Get(stats).values, call.value)) => call.ret = 1
        /\ (call.ascending /\ IsMin(Get(stats).values, call.value)) => call.ret = 1

(* The maximum of a corpus with a smaller value, far from it, ranked
   descending. *)
C5_Witness ==
    /\ call.op = "compute_rank"
    /\ stats # None
    /\ ~call.ascending
    /\ IsMax(Get(stats).values, call.value)
    /\ \E i \in 1..Len(Get(stats).values) :
        QLe(QInt(1), QSub(call.value, Get(stats).values[i]))
    /\ call.ret = 1

NoMatch(values, value) ==
    \A i \in 1..Len(values) :
        /\ values[i] # value
        /\ QLe(Q(1, 100), QAbs(QSub(values[i], value)))

(* C6: when value matches no corpus value, exactly or within 0.01,
   compute_rank returns 1 + the number of corpus values strictly greater
   than value when descending, strictly less when ascending (count + 1 when
   value sorts beyond every corpus value); 130 against 100, 100, 120, 150,
   150 descending has rank 3. *)
C6_RankInsertion ==
    (call.op = "compute_rank" /\ stats # None /\ NoMatch(Get(stats).values, call.value)) =>
        LET values == Get(stats).values
        IN  /\ ~call.ascending => call.ret = 1 + NumAbove(values, call.value)
            /\ call.ascending => call.ret = 1 + NumBelow(values, call.value)
            /\ (~call.ascending /\ NumAbove(values, call.value) = Len(values))
                  => call.ret = Get(stats).count + 1
            /\ (call.ascending /\ NumBelow(values, call.value) = Len(values))
                  => call.ret = Get(stats).count + 1
            /\ (values = ExampleValues /\ call.value = ExampleValue /\ ~call.ascending)
                  => call.ret = 3

C6_Witness ==
    /\ call.op = "compute_rank"
    /\ stats # None
    /\ Get(stats).values = ExampleValues
    /\ call.value = ExampleValue
    /\ ~call.ascending
    /\ call.ret = 3

(* A value that sorts beyond every corpus value has rank count + 1. *)
C6_WitnessBeyond ==
    /\ call.op = "compute_rank"
    /\ stats # None
    /\ NoMatch(Get(stats).values, call.value)
    /\ call.ret = Get(stats).count + 1

(* The corpus values that are equal to `value` or less than 0.01 from it. *)
Matching(values, value) ==
    {values[i] : i \in {j \in 1..Len(values) :
                            values[j] = value \/ QLt(QAbs(QSub(values[j], value)), Q(1, 100))}}

(* The greatest and the least member of a non-empty set of numbers. *)
Greatest(S) == CHOOSE x \in S : \A y \in S : QLe(y, x)
Least(S) == CHOOSE x \in S : \A y \in S : QLe(x, y)

(* C22: when value equals a corpus value, or lies less than 0.01 from one,
   compute_rank returns the 1-based position of the first such value in the
   sorted order, descending by default and ascending when asked: the best
   rank among the matching positions. *)
C22_NearMatchFirstPosition ==
    ( /\ call.op = "compute_rank"
      /\ stats # None
      /\ Matching(Get(stats).values, call.value) # {} ) =>
        LET values == Get(stats).values
            matching == Matching(values, call.value)
        IN  /\ ~call.ascending => call.ret = 1 + NumAbove(values, Greatest(matching))
            /\ call.ascending => call.ret = 1 + NumBelow(values, Least(matching))

(* A value equal to one corpus value and near a greater one, ranked
   descending: the rank is the position of the near value, ahead of the
   equal one. *)
C22_Witness ==
    /\ call.op = "compute_rank"
    /\ stats # None
    /\ ~call.ascending
    /\ call.value \in Matching(Get(stats).values, call.value)
    /\ QLt(call.value, Greatest(Matching(Get(stats).values, call.value)))
    /\ call.ret = 1 + NumAbove(Get(stats).values,
                               Greatest(Matching(Get(stats).values, call.value)))
    /\ call.ret < 1 + NumAbove(Get(stats).values, call.value)

(* The corpus values at least 0.01 greater, or at least 0.01 less, than
   `value`. *)
NumWellAbove(values, value) ==
    Cardinality({i \in 1..Len(values) : QLe(QAdd(value, Q(1, 100)), values[i])})
NumWellBelow(values, value) ==
    Cardinality({i \in 1..Len(values) : QLe(values[i], QSub(value, Q(1, 100)))})

(* C30: compute_rank is monotone in value over a fixed stats: descending, a
   greater value never has a greater rank, and ascending never a smaller
   one, near matches within 0.01 included; the descending rank is 1 + the
   number of corpus values at least 0.01 greater than value (ascending: at
   least 0.01 less). *)
C30_RankMonotone ==
    (call.op = "compute_rank" /\ stats # None) =>
        /\ \A other \in QueryVals :
               QLt(call.value, other) =>
                   IF call.ascending
                   THEN call.ret <= compute_rank(stats, other, TRUE)
                   ELSE call.ret >= compute_rank(stats, other, FALSE)
        /\ ~call.ascending => call.ret = 1 + NumWellAbove(Get(stats).values, call.value)
        /\ call.ascending => call.ret = 1 + NumWellBelow(Get(stats).values, call.value)

(* A value with a near match, ranked descending, and a greater value with a
   strictly smaller rank. *)
C30_Witness ==
    /\ call.op = "compute_rank"
    /\ stats # None
    /\ ~call.ascending
    /\ \E i \in 1..Len(Get(stats).values) :
           /\ Get(stats).values[i] # call.value
           /\ QLt(QAbs(QSub(Get(stats).values[i], call.value)), Q(1, 100))
    /\ \E other \in QueryVals :
           QLt(call.value, other) /\ compute_rank(stats, other, FALSE) < call.ret

-----------------------------------------------------------------------------
(* Properties of the similarity search *)

(* A weighted field can be evaluated: the current record has a non-zero
   value for it, and its column has two non-zero, non-missing cells that
   differ. *)
Evaluable(field) ==
    /\ field \in DOMAIN current_data
    /\ current_data[field] # None
    /\ current_data[field] # QInt(0)
    /\ field \in ref_df.columns
    /\ \E i, j \in 1..Len(ref_df.rows) :
        LET a == ref_df.rows[i][field]
            b == ref_df.rows[j][field]
        IN  a # NaN /\ b # NaN /\ a # QInt(0) /\ b # QInt(0) /\ a # b

(* C7: for a non-empty table and a current record with at least one
   evaluable weighted field, every row get_similar_exhibitions returns
   carries a similarity score in [0, 1]. *)
C7_ScoreInUnitInterval ==
    ( /\ call.op = "get_similar_exhibitions"
      /\ ref_df.rows # <<>>
      /\ \E f \in SimFields : Evaluable(f) ) =>
        /\ call.ret.rows # <<>>
        /\ \A k \in 1..Len(call.ret.rows) :
            /\ SCORE_COL \in DOMAIN call.ret.rows[k]
            /\ QLe(QInt(0), call.ret.rows[k][SCORE_COL])
            /\ QLe(call.ret.rows[k][SCORE_COL], QInt(1))

(* A returned row scored strictly between 0 and 1, from a table with a cell
   further from the current value than the column's range. *)
C7_Witness ==
    /\ call.op = "get_similar_exhibitions"
    /\ \E f \in SimFields :
        /\ Evaluable(f)
        /\ \E i \in 1..Len(ref_df.rows) :
            /\ ref_df.rows[i][f] # NaN
            /\ QLt(ColRange(ref_df, f), QAbs(QSub(ref_df.rows[i][f], current_data[f])))
    /\ \E k \in 1..Len(call.ret.rows) :
        /\ QLt(QInt(0), call.ret.rows[k][SCORE_COL])
        /\ QLt(call.ret.rows[k][SCORE_COL], QInt(1))

(* Row i of the table equals the current record on every weighted field
   the table has (a missing cell equals a missing value). *)
RowEqualsCurrent(i) ==
    \A f \in SimFields \cap ref_df.columns :
        f \in DOMAIN current_data /\ current_data[f] = ref_df.rows[i][f]

(* C8: if the current record equals some row on every weighted field (and a
   field can be evaluated), that row's score is at least the score of every
   other row; the first row returned has that score, and the row itself is
   returned when top_n covers the table. *)
C8_EqualRowRanksTop ==
    ( /\ call.op = "get_similar_exhibitions"
      /\ \E f \in SimFields : Evaluable(f) ) =>
        \A i \in 1..Len(ref_df.rows) :
            RowEqualsCurrent(i) =>
                LET full == df_result(ref_df, current_data).rows
                IN  /\ \A j \in 1..Len(full) : QLe(full[j][SCORE_COL], full[i][SCORE_COL])
                    /\ call.ret.rows[1][SCORE_COL] = full[i][SCORE_COL]
                    /\ call.top_n >= Len(full) =>
                        \E k \in 1..Len(call.ret.rows) :
                            call.ret.rows[k][TITLE_COL] = ref_df.rows[i][TITLE_COL]

(* The current record equals a row that is not the first of the table; two
   weighted fields are evaluated; another row scores strictly less; the
   equal row is returned first. *)
C8_Witness ==
    /\ call.op = "get_similar_exhibitions"
    /\ Cardinality({f \in SimFields : Evaluable(f)}) >= 2
    /\ \E i \in 2..Len(ref_df.rows) :
        /\ RowEqualsCurrent(i)
        /\ call.ret.rows[1][TITLE_COL] = ref_df.rows[i][TITLE_COL]
        /\ \E k \in 1..Len(call.ret.rows) :
            QLt(call.ret.rows[k][SCORE_COL], call.ret.rows[1][SCORE_COL])

(* The spread of a column of the loaded table: the greatest of its non-zero,
   non-missing cells less the least of them. *)
Spread(field) ==
    LET cells == {ref_df.rows[i][field] :
                     i \in {j \in 1..Len(ref_df.rows) :
                               ref_df.rows[j][field] # NaN /\ ref_df.rows[j][field] # QInt(0)}}
    IN  QSub(Greatest(cells), Least(cells))

(* d of a cell of an evaluable field: 1 for a missing cell, otherwise the
   distance to the current value over the spread of the column, at most 1. *)
CellDistance(cell, current_val, spread) ==
    IF cell = NaN THEN QInt(1)
    ELSE LET d == QDiv(QAbs(QSub(cell, current_val)), spread)
         IN  IF QLt(QInt(1), d) THEN QInt(1) ELSE d

(* d of row i of the loaded table on an evaluable field. *)
FieldDistance(field, i) ==
    CellDistance(ref_df.rows[i][field], current_data[field], Spread(field))

(* The sum of the rationals x[e], e in the set E. *)
RECURSIVE SumOver(_, _)
SumOver(x, E) ==
    IF E = {} THEN QInt(0)
    ELSE LET e == CHOOSE n \in E : TRUE IN QAdd(x[e], SumOver(x, E \ {e}))

(* C23: when some weighted field is evaluable, every row returned by
   get_similar_exhibitions carries the score 1 - (sum over the evaluable
   fields of weight x d) / (sum of their weights), d being
   min(1, |cell - current| / spread of the non-zero non-missing cells) and 1
   for a missing cell; the fields that are not evaluable count in neither
   sum. *)
C23_WeightedScore ==
    ( /\ call.op = "get_similar_exhibitions"
      /\ \E f \in SimFields : Evaluable(f) ) =>
        LET E == {e \in 1..Len(SIMILARITY_FIELDS) : Evaluable(SIMILARITY_FIELDS[e].field)}
            weight == [e \in E |-> SIMILARITY_FIELDS[e].weight]
            spread == [e \in E |-> Spread(SIMILARITY_FIELDS[e].field)]
            weights == SumOver(weight, E)
        IN  \A k \in 1..Len(call.ret.rows) :
                LET row == call.ret.rows[k]
                    weighted == [e \in E |->
                                    QMul(weight[e],
                                         CellDistance(row[SIMILARITY_FIELDS[e].field],
                                                      current_data[SIMILARITY_FIELDS[e].field],
                                                      spread[e]))]
                IN  row[SCORE_COL] = QSub(QInt(1), QDiv(SumOver(weighted, E), weights))

(* A returned row with a missing cell in one evaluable field and a distance
   strictly between 0 and 1 in another, while a third weighted field is not
   evaluable. *)
C23_Witness ==
    /\ call.op = "get_similar_exhibitions"
    /\ \E f \in SimFields : ~Evaluable(f)
    /\ \E k \in 1..Len(call.ret.rows) :
        LET i == call.ret.rows[k][TITLE_COL]
        IN  \E f, g \in SimFields :
                /\ Evaluable(f) /\ Evaluable(g)
                /\ ref_df.rows[i][f] = NaN
                /\ ref_df.rows[i][g] # NaN
                /\ QLt(QInt(0), FieldDistance(g, i))
                /\ QLt(FieldDistance(g, i), QInt(1))

(* The rows of a returned table are in non-increasing order of score. *)
ScoresDoNotIncrease(rows) ==
    \A k, l \in 1..Len(rows) : k < l => QLe(rows[l][SCORE_COL], rows[k][SCORE_COL])

(* Rows of equal score come in the order of the loaded table (a row's title
   is its position in the table). *)
TiesInTableOrder(rows) ==
    \A k, l \in 1..Len(rows) :
        (k < l /\ rows[k][SCORE_COL] = rows[l][SCORE_COL]) =>
            rows[k][TITLE_COL] < rows[l][TITLE_COL]

(* min(top_n, number of rows) *)
TopCount(top_n, rows) == IF top_n < Len(rows) THEN top_n ELSE Len(rows)

(* C24: the rows get_similar_exhibitions returns are in non-increasing order
   of similarity score, rows of equal score are in the order of the table,
   and there are exactly min(top_n, number of rows) of them. *)
C24_SortedStableTopN ==
    call.op = "get_similar_exhibitions" =>
        /\ Len(call.ret.rows) = TopCount(call.top_n, ref_df.rows)
        /\ SCORE_COL \in call.ret.columns =>
            /\ ScoresDoNotIncrease(call.ret.rows)
            /\ TiesInTableOrder(call.ret.rows)

(* A scored table of three rows called with the default top_n: all three
   rows come back, in non-increasing order of score, and two of equal score
   come back in the reverse of their order in the table. *)
C24_WitnessTieReversed ==
    /\ call.op = "get_similar_exhibitions"
    /\ call.top_n = TOP_N_DEFAULT
    /\ SCORE_COL \in call.ret.columns
    /\ Len(call.ret.rows) = SimRows
    /\ ScoresDoNotIncrease(call.ret.rows)
    /\ \E k, l \in 1..Len(call.ret.rows) :
        /\ k < l
        /\ call.ret.rows[k][SCORE_COL] = call.ret.rows[l][SCORE_COL]
        /\ call.ret.rows[k][TITLE_COL] > call.ret.rows[l][TITLE_COL]
    /\ \E k \in 1..Len(call.ret.rows) :
        QLt(call.ret.rows[k][SCORE_COL], call.ret.rows[1][SCORE_COL])

-----------------------------------------------------------------------------
(* Properties of the type filters *)

(* The rows of the loaded table whose type is not 0, in order: the corpus
   with type 0 excluded, stated on the cells. *)
RECURSIVE NonZeroRows(_, _)
NonZeroRows(rows, k) ==
    IF k = 0 THEN <<>>
    ELSE IF rows[k][EXHIBITION_TYPE_COL] # QInt(0)
         THEN Append(NonZeroRows(rows, k - 1), rows[k])
         ELSE NonZeroRows(rows, k - 1)

HasTypeCol == EXHIBITION_TYPE_COL \in ref_df.columns

ExcludedCorpus ==
    IF HasTypeCol THEN NonZeroRows(ref_df.rows, Len(ref_df.rows)) ELSE ref_df.rows

(* How many rows of the excluded corpus have the requested type. *)
NumOfType(exhibition_type) ==
    IF exhibition_type.kind = "number" /\ HasTypeCol
    THEN Cardinality({k \in 1..Len(ExcludedCorpus) :
                         ExcludedCorpus[k][EXHIBITION_TYPE_COL] = exhibition_type.val})
    ELSE 0

(* C9: filter_by_type returns fewer than 3 rows only if the corpus with
   type 0 excluded has fewer than 3 rows; when fewer than 3 rows have the
   requested type it returns the whole excluded corpus; when the requested
   type is None it returns the whole excluded corpus. *)
C9_FilterByTypeFallback ==
    call.op = "filter_by_type" =>
        /\ Len(call.ret.rows) < 3 => Len(ExcludedCorpus) < 3
        /\ NumOfType(call.exhibition_type) < 3 => call.ret.rows = ExcludedCorpus
        /\ call.exhibition_type = NoType => call.ret.rows = ExcludedCorpus

(* Two rows have the requested type, the excluded corpus has more, and the
   whole excluded corpus came back. *)
C9_Witness ==
    /\ call.op = "filter_by_type"
    /\ NumOfType(call.exhibition_type) = 2
    /\ Len(ExcludedCorpus) >= 3
    /\ Len(ExcludedCorpus) < Len(ref_df.rows)
    /\ call.ret.rows = ExcludedCorpus

(* Three rows or more have the requested type and only they came back. *)
C9_WitnessSubset ==
    /\ call.op = "filter_by_type"
    /\ NumOfType(call.exhibition_type) >= 3
    /\ Len(call.ret.rows) = NumOfType(call.exhibition_type)
    /\ Len(call.ret.rows) < Len(ExcludedCorpus)

TypeZeroTitles ==
    IF HasTypeCol
    THEN {ref_df.rows[k][TITLE_COL] : k \in {m \in 1..Len(ref_df.rows) :
                                                ref_df.rows[m][EXHIBITION_TYPE_COL] = QInt(0)}}
    ELSE {}

NoTypeZeroRow(df) ==
    \A k \in 1..Len(df.rows) :
        /\ EXHIBITION_TYPE_COL \in df.columns => df.rows[k][EXHIBITION_TYPE_COL] # QInt(0)
        /\ df.rows[k][TITLE_COL] \notin TypeZeroTitles

NoTypeZeroTitle(titles) ==
    \A k \in 1..Len(titles) : titles[k] \notin TypeZeroTitles

(* C10: no row of type 0 is in the output of exclude_type_zero or of
   filter_by_type, whatever type is requested (0 and a non-numeric text
   included); generate_all_insights compares against tables without a
   type-0 row, and no type-0 row is among the rows of its statistics or
   its similar exhibitions. *)
C10_TypeZeroExcluded ==
    /\ call.op \in {"exclude_type_zero", "filter_by_type"} => NoTypeZeroRow(call.ret)
    /\ (call.op = "generate_all_insights" /\ call.raised = "") =>
        /\ NoTypeZeroRow(call.ret.df_full)
        /\ NoTypeZeroRow(call.ret.df_typed)
        /\ call.ret.b_stats # None => NoTypeZeroTitle(Get(call.ret.b_stats).titles)
        /\ call.ret.v_stats # None => NoTypeZeroTitle(Get(call.ret.v_stats).titles)
        /\ NoTypeZeroTitle([k \in 1..Len(call.ret.similar_exhibitions) |->
                               call.ret.similar_exhibitions[k].title])

(* generate_all_insights on a table with a type-0 row, with statistics and
   similar exhibitions produced. *)
C10_Witness ==
    /\ call.op = "generate_all_insights"
    /\ call.raised = ""
    /\ TypeZeroTitles # {}
    /\ call.ret.v_stats # None
    /\ call.ret.similar_exhibitions # <<>>

(* Type 0 itself is requested of a table with three type-0 rows. *)
C10_WitnessTypeZeroRequested ==
    /\ call.op = "filter_by_type"
    /\ call.exhibition_type = NumType(QInt(0))
    /\ Cardinality(TypeZeroTitles) >= 3
    /\ call.ret.rows # <<>>

(* C18: when no weighted field can be evaluated, get_similar_exhibitions
   returns the first min(top_n, rows) rows of the table, in table order and
   as they are in the table. *)
C18_FallbackFirstRows ==
    ( /\ call.op = "get_similar_exhibitions"
      /\ \A f \in SimFields : ~Evaluable(f) ) =>
        LET n == IF call.top_n < Len(ref_df.rows) THEN call.top_n ELSE Len(ref_df.rows)
        IN  /\ Len(call.ret.rows) = n
            /\ \A k \in 1..n : call.ret.rows[k] = ref_df.rows[k]

(* The current record has values, no field can be evaluated, the table has
   more rows than top_n, and only the first row came back. *)
C18_Witness ==
    /\ call.op = "get_similar_exhibitions"
    /\ \A f \in SimFields : ~Evaluable(f)
    /\ \E f \in SimFields \cap DOMAIN current_data :
        current_data[f] # None /\ current_data[f] # QInt(0)
    /\ Len(ref_df.rows) > call.top_n
    /\ call.ret.rows = <<ref_df.rows[1]>>

-----------------------------------------------------------------------------
(* Properties of the derived metrics *)

(* A derived cell is a number: not missing, and with a denominator that is
   not 0 (no infinity). *)
Finite(x) == notna(x) /\ x[2] > 0

(* x = num / den, stated without dividing. *)
IsQuotient(x, num, den) == Finite(x) /\ QMul(x, den) = num

DerivedCalled == call.op = "compute_derived_metrics" /\ call.raised = ""

(* C13 as stated: the derived value is missing whenever the denominator is
   missing or zero, is never infinite, and otherwise equals numerator /
   denominator (missing if the numerator is missing). *)
C13_DerivedRatiosAsStated ==
    DerivedCalled =>
        \A k \in 1..Len(DERIVED), i \in 1..Len(ref_df.rows) :
            LET num == ref_df.rows[i][DERIVED[k].num]
                den == ref_df.rows[i][DERIVED[k].den]
                x == call.ret.rows[i][DERIVED[k].name]
            IN  /\ (den = NaN \/ den = QInt(0)) => x = NaN
                /\ x = NaN \/ Finite(x)
                /\ (den # NaN /\ den # QInt(0)) =>
                      IF num = NaN THEN x = NaN ELSE IsQuotient(x, num, den)

(* C13: the derived value is missing whenever the denominator is missing,
   zero or negative, is never infinite, and for a positive denominator
   equals numerator / denominator (missing if the numerator is missing);
   the input columns are unchanged. *)
C13_DerivedRatios ==
    DerivedCalled =>
        /\ Len(call.ret.rows) = Len(ref_df.rows)
        /\ call.ret.columns = ref_df.columns \cup DerivedNames
        /\ \A k \in 1..Len(DERIVED), i \in 1..Len(ref_df.rows) :
            LET num == ref_df.rows[i][DERIVED[k].num]
                den == ref_df.rows[i][DERIVED[k].den]
                x == call.ret.rows[i][DERIVED[k].name]
            IN  /\ (den = NaN \/ QLe(den, QInt(0))) => x = NaN
                /\ x = NaN \/ Finite(x)
                /\ (den # NaN /\ QLt(QInt(0), den)) =>
                      IF num = NaN THEN x = NaN ELSE IsQuotient(x, num, den)
        /\ \A i \in 1..Len(ref_df.rows), c \in ref_df.columns :
            call.ret.rows[i][c] = ref_df.rows[i][c]

(* A row with a negative visitor count and a budget: its cost per visitor
   is missing; and its revenue ratio is a proper quotient. *)
C13_Witness ==
    /\ DerivedCalled
    /\ \E i \in 1..Len(ref_df.rows) :
        /\ ref_df.rows[i]["total_visitors"] = QInt(-1)
        /\ ref_df.rows[i]["total_budget"] = QInt(2)
        /\ ref_df.rows[i]["total_revenue"] = QInt(1)
        /\ call.ret.rows[i]["cost_per_visitor"] = NaN
        /\ call.ret.rows[i]["revenue_budget_ratio"] = Q(1, 2)

-----------------------------------------------------------------------------
(* Properties of the base insight rule *)

MakeInsightCalled == call.op = "_make_insight"

(* The cases in which the rule has nothing to compare against. *)
NoComparison ==
    \/ stats = None
    \/ Get(stats).count < 3
    \/ Get(stats).mean = QInt(0)

(* The one Insight of the rule carries the current value, the mean, the
   percentile, the rank and the sample size. *)
CarriesComparison ==
    /\ call.ret # None
    /\ Get(call.ret).current_value = call.current_val
    /\ Get(call.ret).reference_avg = Get(stats).mean
    /\ Get(call.ret).percentile = Some(compute_percentile(stats, call.current_val))
    /\ Get(call.ret).rank = Some(compute_rank(stats, call.current_val,
                                              ~call.higher_is_better))
    /\ Get(call.ret).total_count = Some(Get(stats).count)

(* C16 as stated: the rule returns nothing whenever the current value is
   missing or falsy (0 included), the stats are unavailable, stats.count < 3
   or the mean is exactly 0; otherwise it returns exactly one Insight
   carrying the current value, mean, percentile, rank and sample size. *)
C16_BaseRuleGuardsAsStated ==
    MakeInsightCalled =>
        IF ~Truthy(call.current_val) \/ NoComparison
        THEN call.ret = None
        ELSE CarriesComparison

(* C16: the rule returns nothing whenever the current value is None, the
   stats are unavailable, stats.count < 3 or the mean is exactly 0;
   otherwise, a current value of 0 included, it returns exactly one Insight
   carrying the current value, mean, percentile, rank and sample size. *)
C16_BaseRuleGuards ==
    MakeInsightCalled =>
        IF call.current_val = None \/ NoComparison
        THEN call.ret = None
        ELSE CarriesComparison

(* The rule is called with 0 against three or more values of non-zero mean
   and returns an Insight for it. *)
C16_Witness ==
    /\ MakeInsightCalled
    /\ call.current_val = QInt(0)
    /\ ~NoComparison
    /\ call.ret # None
    /\ Get(call.ret).current_value = QInt(0)

(* The rule returns nothing for a value because the sample is of two. *)
C16_WitnessSmallSample ==
    /\ MakeInsightCalled
    /\ Truthy(call.current_val)
    /\ stats # None
    /\ Get(stats).count = 2
    /\ Get(stats).mean # QInt(0)
    /\ call.ret = None

(* (current - mean) / |mean| x 100, as 100 x (current / |mean| - mean / |mean|). *)
DeviationPct(current, mean) ==
    QMul(QInt(100), QSub(QDiv(current, QAbs(mean)), QDiv(mean, QAbs(mean))))

(* C17: the sentence of the base insight says "above" when diff_pct =
   (current - mean) / |mean| x 100 is positive and "below" when it is
   negative, and shows |diff_pct| to one decimal; mean 100,000,000 and
   current 70,000,000 give "30.0 % below". *)
C17_DirectionAndDeviation ==
    (MakeInsightCalled /\ call.ret # None) =>
        LET text == Get(call.ret).text
            d == DeviationPct(call.current_val, Get(stats).mean)
        IN  /\ QLt(QInt(0), d) => text.direction = "above"
            /\ QLt(d, QInt(0)) => text.direction = "below"
            /\ text.abs_diff[2] \in {1, 2, 5, 10}
            /\ QLe(QAbs(QSub(text.abs_diff, QAbs(d))), Q(1, 20))
            /\ ( /\ Get(stats).mean = QInt(100000000)
                 /\ call.current_val = QInt(70000000) ) =>
                    text.abs_diff = QInt(30) /\ text.direction = "below"

(* The worked example: 70,000,000 against a mean of 100,000,000. *)
C17_Witness ==
    /\ MakeInsightCalled
    /\ call.ret # None
    /\ Get(stats).mean = QInt(100000000)
    /\ call.current_val = QInt(70000000)
    /\ Get(call.ret).text.abs_diff = QInt(30)
    /\ Get(call.ret).text.direction = "below"

(* A value above the mean, whose deviation is not a whole number of tenths. *)
C17_WitnessAbove ==
    /\ MakeInsightCalled
    /\ call.ret # None
    /\ Get(call.ret).text.direction = "above"
    /\ Get(call.ret).text.abs_diff # QAbs(DeviationPct(call.current_val, Get(stats).mean))

-----------------------------------------------------------------------------
(* Properties of the synthesizer *)

DraftsCalled == call.op = "_generate_eval_drafts"

KeyOf(d) == <<d.eval_type, d.source_metric>>

(* The position of the first candidate draft with the key of d. *)
FirstWithKey(candidates, d) ==
    CHOOSE i \in 1..Len(candidates) :
        /\ KeyOf(candidates[i]) = KeyOf(d)
        /\ \A j \in 1..(i - 1) : KeyOf(candidates[j]) # KeyOf(d)

(* C11: the drafts returned hold at most one draft per (eval_type,
   source_metric); of the candidates that share a pair the first generated
   is the one returned; the returned drafts are in generation order; and
   every pair among the candidates is returned. *)
C11_DraftsDeduplicated ==
    DraftsCalled =>
        LET c == call.drafts
            u == call.ret
        IN  /\ \A i, j \in 1..Len(u) : KeyOf(u[i]) = KeyOf(u[j]) => i = j
            /\ \A k \in 1..Len(u) :
                /\ \E i \in 1..Len(c) : KeyOf(c[i]) = KeyOf(u[k])
                /\ u[k] = c[FirstWithKey(c, u[k])]
            /\ \A k \in 1..(Len(u) - 1) : FirstWithKey(c, u[k]) < FirstWithKey(c, u[k + 1])
            /\ \A i \in 1..Len(c) : \E k \in 1..Len(u) : KeyOf(u[k]) = KeyOf(c[i])

(* Two candidates with one pair and different texts, a third candidate
   after them; the first of the two is returned and the second is not. *)
C11_Witness ==
    /\ DraftsCalled
    /\ \E i, j \in 1..Len(call.drafts) :
        /\ i < j
        /\ KeyOf(call.drafts[i]) = KeyOf(call.drafts[j])
        /\ call.drafts[i] # call.drafts[j]
        /\ \E k \in 1..Len(call.ret) : call.ret[k] = call.drafts[i]
        /\ \A k \in 1..Len(call.ret) : call.ret[k] # call.drafts[j]
    /\ Len(call.ret) >= 2
    /\ Len(call.ret) < Len(call.drafts)

-----------------------------------------------------------------------------
(* Properties of the generators and of the orchestrator *)

InsightsReturned == call.op = "generate_all_insights" /\ call.raised = ""

(* The insights of priority p, in the order of the list. *)
OfPriority(insights, p) == SelectSeq(insights, LAMBDA x : x.priority = p)

(* The outputs of the seven generators one after the other, in the order
   audience, budget, program, artwork, promotion, staff, cross-metric. *)
InGeneratorOrder(cur, df, gl) ==
    analyze_visitors(cur, df, gl).insights \o analyze_budget(cur, df, gl).insights
        \o analyze_programs(cur, df, gl).insights \o analyze_artworks(cur, df, gl).insights
        \o analyze_promotion(cur, df, gl).insights \o analyze_staff(cur, df, gl).insights
        \o analyze_cross(cur, df, gl).insights

(* C12: the insights generate_all_insights returns are in non-decreasing
   order of priority, and the insights of one priority stand in the order
   of the generators (audience, budget, program, artwork, promotion, staff,
   cross-metric) and, within a generator, in the order it emitted them. *)
C12_SortedStable ==
    InsightsReturned =>
        LET insights == call.ret.insights
            emitted == InGeneratorOrder(current_data, call.ret.df_typed, call.ret.gl)
        IN  /\ Len(insights) = Len(emitted)
            /\ \A i \in 1..Len(insights) : \A j \in i..Len(insights) :
                   insights[i].priority <= insights[j].priority
            /\ \A p \in {emitted[k].priority : k \in 1..Len(emitted)} :
                   OfPriority(insights, p) = OfPriority(emitted, p)

(* A list the sort had to change, with two insights of one priority from
   different generators and two from the same generator. *)
C12_Witness ==
    /\ InsightsReturned
    /\ call.ret.insights # call.ret.all_insights
    /\ \E i, j \in 1..Len(call.ret.insights) :
           /\ i < j
           /\ call.ret.insights[i].priority = call.ret.insights[j].priority
           /\ call.ret.insights[i].category # call.ret.insights[j].category
    /\ \E i, j \in 1..Len(call.ret.insights) :
           /\ i < j
           /\ call.ret.insights[i].priority = call.ret.insights[j].priority
           /\ call.ret.insights[i].category = call.ret.insights[j].category

(* C14: for any loaded table and any current record, generate_all_insights
   does not raise. *)
C14_NeverRaises ==
    call.op = "generate_all_insights" => call.raised = ""

(* The orchestrator degrades: a table of two rows, or a record without a
   field, gives an empty list of insights. *)
C14_WitnessDegraded ==
    /\ InsightsReturned
    /\ call.ret.insights = <<>>
    /\ call.ret.eval_drafts = <<>>
    /\ (Len(ref_df.rows) < 3 \/ current_data = NoCurrent)

(* The cost-per-visitor insights of the budget generator whose current
   value is more than `pct` per cent below the corpus mean. *)
CheapInsights(insights, pct) ==
    {k \in 1..Len(insights) :
        /\ insights[k].category = "budget"
        /\ insights[k].metric_name = "cost per visitor"
        /\ QLt(insights[k].current_value,
               QSub(insights[k].reference_avg,
                    QMul(Q(pct, 100), QAbs(insights[k].reference_avg))))}

EfficientOperationDraft(d) ==
    /\ d.eval_type = "positive"
    /\ d.text.template = "efficient_operation"
    /\ d.source_metric = "cost per visitor"

(* C15: when the budget generator emits a cost-per-visitor insight whose
   current value is more than 10 % below the corpus mean, the drafts of the
   synthesizer hold a positive efficient-operation draft whose source
   metric is the cost per visitor, and no negative draft of that metric. *)
C15_EfficientOperationDraft ==
    InsightsReturned /\ CheapInsights(call.ret.all_insights, 10) # {} =>
        LET drafts == call.ret.eval_drafts
        IN  /\ \E k \in 1..Len(drafts) : EfficientOperationDraft(drafts[k])
            /\ \A k \in 1..Len(drafts) :
                   drafts[k].source_metric = "cost per visitor" =>
                       drafts[k].eval_type # "negative"

(* A cost per visitor between 10 % and 15 % below the mean, with its draft. *)
C15_Witness ==
    /\ InsightsReturned
    /\ CheapInsights(call.ret.all_insights, 10) # {}
    /\ CheapInsights(call.ret.all_insights, 15) = {}
    /\ \E k \in 1..Len(call.ret.eval_drafts) : EfficientOperationDraft(call.ret.eval_drafts[k])

(* The example: a cost per visitor of 0.7 against a mean of 1, 30 % below. *)
C15_WitnessThirtyBelow ==
    /\ InsightsReturned
    /\ \E k \in 1..Len(call.ret.all_insights) :
           /\ call.ret.all_insights[k].metric_name = "cost per visitor"
           /\ call.ret.all_insights[k].current_value = Q(7, 10)
           /\ call.ret.all_insights[k].reference_avg = QInt(1)
           /\ call.ret.all_insights[k].text.abs_diff = QInt(30)
           /\ call.ret.all_insights[k].text.direction = "below"
    /\ \E k \in 1..Len(call.ret.eval_drafts) :
           /\ EfficientOperationDraft(call.ret.eval_drafts[k])
           /\ call.ret.eval_drafts[k].text.abs_diff = 30

(* The composition insights of a list. *)
CompositionInsights(insights) ==
    {k \in 1..Len(insights) : insights[k].metric_name = "media composition"}

(* The count of the medium with label l in the current record, 0 when the
   record has none. *)
CountOf(l) ==
    LET field == (CHOOSE m \in {media_fields[k] : k \in 1..Len(media_fields)} :
                      m.label = l).field
    IN  IF field \in DOMAIN current_data THEN current_data[field] ELSE QInt(0)

(* The shares of the medium with label l in the rows of df that have a
   total above 0 and a count of the medium. *)
SharesOf(df, l) ==
    LET field == (CHOOSE m \in {media_fields[k] : k \in 1..Len(media_fields)} :
                      m.label = l).field
        rows == IF {field, "artworks_total"} \subseteq df.columns
                THEN {i \in 1..Len(df.rows) :
                         /\ df.rows[i]["artworks_total"] # NaN
                         /\ QLt(QInt(0), df.rows[i]["artworks_total"])
                         /\ df.rows[i][field] # NaN}
                ELSE {}
    IN  [k \in 1..Cardinality(rows) |->
            QDiv(df.rows[KthOf(rows, k)][field], df.rows[KthOf(rows, k)]["artworks_total"])]

(* C19: in the composition insight the dominant medium is the medium with
   the largest positive count of the current record, its share is its count
   divided by the total of the works, and when the corpus has at least 3
   valid ratio rows of that medium the insight states "above" exactly when
   the share of the record is greater than the mean share of the corpus. *)
C19_DominantMedium ==
    InsightsReturned =>
        \A k \in CompositionInsights(call.ret.all_insights) :
            LET ins == call.ret.all_insights[k]
                dominant == ins.text.dominant
                share == QDiv(CountOf(dominant), current_data["artworks_total"])
                shares == SharesOf(call.ret.df_typed, dominant)
            IN  /\ QLt(QInt(0), CountOf(dominant))
                /\ \A m \in 1..Len(media_fields) :
                       QLe(CountOf(media_fields[m].label), CountOf(dominant))
                /\ ins.current_value = QMul(share, QInt(100))
                /\ Len(shares) >= 3 =>
                       ((ins.text.comparison = "above") <=>
                            QLt(QDiv(QSum(shares), QInt(Len(shares))), share))

(* The example: 40 paintings and 10 sculptures of 50 works, against a mean
   share of paintings of 50 %: the insight states that the 80 % of painting
   are above the average. *)
C19_WitnessExample ==
    /\ InsightsReturned
    /\ CountOf("painting") = QInt(40)
    /\ CountOf("sculpture") = QInt(10)
    /\ current_data["artworks_total"] = QInt(50)
    /\ \E k \in CompositionInsights(call.ret.all_insights) :
           /\ call.ret.all_insights[k].text.dominant = "painting"
           /\ call.ret.all_insights[k].current_value = QInt(80)
           /\ call.ret.all_insights[k].reference_avg = QInt(50)
           /\ call.ret.all_insights[k].text.comparison = "above"

(* C19 with the comparison the code makes: the insight states "above" or
   "below" only when the mean share of the corpus is above 0. *)
C19_DominantMediumPositiveMean ==
    InsightsReturned =>
        \A k \in CompositionInsights(call.ret.all_insights) :
            LET ins == call.ret.all_insights[k]
                dominant == ins.text.dominant
                share == QDiv(CountOf(dominant), current_data["artworks_total"])
                shares == SharesOf(call.ret.df_typed, dominant)
                mean == QDiv(QSum(shares), QInt(Len(shares)))
            IN  /\ QLt(QInt(0), CountOf(dominant))
                /\ \A m \in 1..Len(media_fields) :
                       QLe(CountOf(media_fields[m].label), CountOf(dominant))
                /\ ins.current_value = QMul(share, QInt(100))
                /\ Len(shares) >= 3 /\ QLt(QInt(0), mean) =>
                       ((ins.text.comparison = "above") <=> QLt(mean, share))
                /\ Len(shares) >= 3 /\ ~QLt(QInt(0), mean) => ins.text.comparison = ""

(* The number of non-missing cells of a column, 0 when the table has no
   such column. *)
Counted(df, column) ==
    IF column \in df.columns
    THEN Cardinality({i \in 1..Len(df.rows) : df.rows[i][column] # NaN})
    ELSE 0

(* The number of rows with a numerator and a denominator above 0. *)
RatioCounted(df, num, den) ==
    IF {num, den} \subseteq df.columns
    THEN Cardinality({i \in 1..Len(df.rows) :
                         /\ df.rows[i][num] # NaN
                         /\ df.rows[i][den] # NaN
                         /\ QLt(QInt(0), df.rows[i][den])})
    ELSE 0

(* The column whose statistics an insight of one column compares with. *)
ComparedColumn ==
    "total_visitors" :> "total_visitors" @@ "daily_visitors" :> "daily_visitors" @@
    "student visitors" :> "student_visitors" @@ "artpass_visitors" :> "artpass_visitors" @@
    "total_budget" :> "total_budget" @@ "program count" :> "program_count" @@
    "program_participants" :> "program_participants" @@ "artworks" :> "artworks_total" @@
    "press_count" :> "press_count" @@ "sns_posts" :> "sns_posts"

(* The ratio an insight of a ratio compares with: numerator, denominator. *)
ComparedRatio ==
    "paid visitor ratio" :> <<"paid_visitors", "total_visitors">> @@
    "cost per visitor" :> <<"total_budget", "total_visitors">> @@
    "budget recovery" :> <<"total_revenue", "total_budget">> @@
    "program participation rate" :> <<"program_participants", "total_visitors">> @@
    "visitors per press" :> <<"total_visitors", "press_count">> @@
    "exhibition cost ratio" :> <<"exhibition_budget", "total_budget">> @@
    "visitors per staff" :> <<"total_visitors", "staff_total">>

(* The sizes of the samples an insight rests on: the non-missing values of
   each corpus statistic its sentence compares the record with. *)
SampleSizes(ins, df) ==
    IF ins.metric_name \in DOMAIN ComparedColumn
    THEN {Counted(df, ComparedColumn[ins.metric_name])}
    ELSE IF ins.metric_name \in DOMAIN ComparedRatio
    THEN {RatioCounted(df, ComparedRatio[ins.metric_name][1], ComparedRatio[ins.metric_name][2])}
    ELSE IF ins.metric_name = "media composition"
    THEN (IF ins.text.comparison = "" THEN {}
          ELSE {Len(SharesOf(df, ins.text.dominant))})
    ELSE IF ins.metric_name \in {"budget-visitor efficiency", "budget-visitor inefficiency"}
    THEN {Counted(df, "total_budget"), Counted(df, "total_visitors"),
          RatioCounted(df, "total_budget", "total_visitors")}
    ELSE {Counted(df, "press_count"), Counted(df, "total_visitors")}

(* C20: every insight of the seven generators rests on corpus statistics
   of at least 3 non-missing values, the cross-metric insights that read
   the deviations of budget, visitors or press included. *)
C20_AtLeastThreeValues ==
    InsightsReturned =>
        \A k \in 1..Len(call.ret.all_insights) :
            \A n \in SampleSizes(call.ret.all_insights[k], call.ret.df_typed) : n >= 3

(* Insights of every generator, each on a sample of 3 or more. *)
C20_Witness ==
    /\ InsightsReturned
    /\ {call.ret.all_insights[k].category : k \in 1..Len(call.ret.all_insights)}
           = {"audience", "budget", "program", "artwork", "promotion", "staff", "cross"}
    /\ \A k \in 1..Len(call.ret.all_insights) :
           \A n \in SampleSizes(call.ret.all_insights[k], call.ret.df_typed) : n >= 3

(* C20 without the press-against-visitors insight of _analyze_cross: the
   other insights rest on samples of 3 or more. *)
C20_AtLeastThreeValuesButPress ==
    InsightsReturned =>
        \A k \in 1..Len(call.ret.all_insights) :
            call.ret.all_insights[k].metric_name # "press-visitor relation" =>
                \A n \in SampleSizes(call.ret.all_insights[k], call.ret.df_typed) : n >= 3

(* C21: for any corpus, one whose derived-ratio column has a mean of
   exactly 0 included, and any current record, no generator raises a
   division-by-zero error. *)
C21_NoDivisionByZero ==
    call.op = "generate_all_insights" => call.raised # "ZeroDivisionError"

(* The guarded sites: a corpus whose visitor mean is 0 and a record with
   visitors; _make_insight and _diff_pct give None and nothing raises. *)
C21_WitnessGuarded ==
    /\ InsightsReturned
    /\ Truthy(CurGet(current_data, "total_visitors"))
    /\ call.ret.v_stats # None
    /\ Get(call.ret.v_stats).count >= 3
    /\ Get(call.ret.v_stats).mean = QInt(0)


-----------------------------------------------------------------------------
(* Properties of the quality words *)

(* The band of a word, 1 the best and 5 the worst. *)
BandIndex(word) ==
    IF word \in {"excellent", "very_efficient"} THEN 1
    ELSE IF word \in {"good", "efficient"} THEN 2
    ELSE IF word = "average" THEN 3
    ELSE IF word \in {"rather_poor", "rather_high"} THEN 4
    ELSE 5

(* The band of a deviation d where higher is better, by the cut points:
   above 30, above 10 up to 30, above -10 up to 10, above -30 up to -10,
   -30 or less. *)
BandOfDeviation(d) ==
    IF QLt(QInt(30), d) THEN 1
    ELSE IF QLt(QInt(10), d) /\ QLe(d, QInt(30)) THEN 2
    ELSE IF QLt(QInt(-10), d) /\ QLe(d, QInt(10)) THEN 3
    ELSE IF QLt(QInt(-30), d) /\ QLe(d, QInt(-10)) THEN 4
    ELSE 5

(* The words of each direction, best first. *)
QualityWords(higher_is_better) ==
    IF higher_is_better THEN <<"excellent", "good", "average", "rather_poor", "poor">>
    ELSE <<"very_efficient", "efficient", "average", "rather_high", "high">>

(* C25: _quality_word puts a deviation in exactly one of five bands cut at
   +-10 and +-30 (higher is better: above 30, 10 to 30, -10 to 10, -30 to
   -10, below -30; a cut point belongs to the band below it), and the
   lower-is-better banding is the mirror image: the band of d where higher
   is better is the band of -d where lower is better, cut points included. *)
C25_FiveBandsMirrored ==
    call.op = "_quality_word" =>
        LET d == call.diff_pct
            h == call.higher_is_better
        IN  /\ call.ret = QualityWords(h)[BandOfDeviation(IF h THEN d ELSE QNeg(d))]
            /\ BandIndex(call.ret) = BandIndex(quality_word(QNeg(d), ~h))

(* The call on the cut point -30 where lower is better: "efficient", the
   band of "good", which is the word for 30 where higher is better. *)
C25_Witness ==
    /\ call.op = "_quality_word"
    /\ call.diff_pct = QInt(-30)
    /\ ~call.higher_is_better
    /\ call.ret = "efficient"
    /\ quality_word(QInt(30), TRUE) = "good"


-----------------------------------------------------------------------------
(* Properties of the synthesizer's thresholds *)

(* The insight has a current value and a reference mean that is not 0. *)
Comparable(ins) ==
    ins.current_value # None /\ ins.reference_avg # None /\ ins.reference_avg # QInt(0)

(* diff_pct of a comparable insight. *)
DeviationOf(ins) == DeviationPct(ins.current_value, ins.reference_avg)

(* The returned drafts hold one of the type for the metric. *)
HasDraft(drafts, eval_type, metric_name) ==
    \E k \in 1..Len(drafts) :
        drafts[k].eval_type = eval_type /\ drafts[k].source_metric = metric_name

(* C26: for every insight with a current value and a non-zero reference
   mean whose diff_pct = (current - mean) / |mean| x 100 is above 15, the
   returned drafts hold a positive draft for the insight's metric; and the
   insights without a current value, or with a missing or zero reference
   mean, add nothing: the drafts are those of the list without them. *)
C26_PositiveAboveFifteen ==
    DraftsCalled =>
        /\ \A k \in 1..Len(call.insights) :
            (Comparable(call.insights[k]) /\ QLt(QInt(15), DeviationOf(call.insights[k]))) =>
                HasDraft(call.ret, "positive", call.insights[k].metric_name)
        /\ call.ret = generate_eval_drafts(SelectSeq(call.insights, Comparable))
        /\ (\A k \in 1..Len(call.insights) : ~Comparable(call.insights[k])) => call.ret = <<>>

(* A list of an insight with a reference mean of 0 and an insight of the
   budget 20 % above its mean: one draft, the positive one of the budget. *)
C26_Witness ==
    /\ DraftsCalled
    /\ Len(call.insights) = 2
    /\ call.insights[1].reference_avg = QInt(0)
    /\ call.insights[2].metric_name = "total_budget"
    /\ Comparable(call.insights[2])
    /\ DeviationOf(call.insights[2]) = QInt(20)
    /\ Len(call.ret) = 1
    /\ call.ret[1].eval_type = "positive"
    /\ call.ret[1].source_metric = "total_budget"


(* Insight k is the only one of the list with its metric: the drafts of the
   metric are its own. *)
OnlyOfMetric(insights, k) ==
    \A j \in 1..Len(insights) : insights[j].metric_name = insights[k].metric_name => j = k

(* The metric name holds the audience word and not the cost word. *)
AudienceMetric(metric_name) ==
    "audience" \in KEYWORDS[metric_name] /\ "cost" \notin KEYWORDS[metric_name]

ParticipationMetric(metric_name) == "participation" \in KEYWORDS[metric_name]

PressMetric(metric_name) == "press" \in KEYWORDS[metric_name]

(* C27: for an insight with diff_pct < -15 a negative draft of its metric is
   returned exactly if the metric is an audience metric that is not a cost,
   or a participation metric; for an insight with diff_pct < -20 an
   improvement draft of its metric is returned exactly if the metric is an
   audience (not cost), participation or press metric; from -15 to 15 there
   is no negative draft and from -20 up no improvement draft; and every
   improvement draft returned for an audience or participation metric
   comes with a negative draft for the same metric. *)
C27_NegativeAndImprovement ==
    DraftsCalled =>
        /\ \A k \in 1..Len(call.insights) :
            LET ins == call.insights[k]
                m == ins.metric_name
            IN  (Comparable(ins) /\ OnlyOfMetric(call.insights, k)) =>
                    /\ QLt(DeviationOf(ins), QInt(-15)) =>
                        (HasDraft(call.ret, "negative", m)
                            <=> (AudienceMetric(m) \/ ParticipationMetric(m)))
                    /\ QLt(DeviationOf(ins), QInt(-20)) =>
                        (HasDraft(call.ret, "improvement", m)
                            <=> (AudienceMetric(m) \/ ParticipationMetric(m) \/ PressMetric(m)))
                    /\ (QLe(QInt(-15), DeviationOf(ins)) /\ QLe(DeviationOf(ins), QInt(15))) =>
                        ~HasDraft(call.ret, "negative", m)
                    /\ QLe(QInt(-20), DeviationOf(ins)) =>
                        ~HasDraft(call.ret, "improvement", m)
        /\ \A d \in 1..Len(call.ret) :
            ( /\ call.ret[d].eval_type = "improvement"
              /\ \/ AudienceMetric(call.ret[d].source_metric)
                 \/ ParticipationMetric(call.ret[d].source_metric) ) =>
                HasDraft(call.ret, "negative", call.ret[d].source_metric)

(* The visitors 18 % below the mean and the press count 30 % below: a
   negative draft and no improvement draft for the visitors, an improvement
   draft and no negative draft for the press count. *)
C27_Witness ==
    /\ DraftsCalled
    /\ Len(call.insights) = 2
    /\ call.insights[1].metric_name = "total_visitors"
    /\ Comparable(call.insights[1])
    /\ DeviationOf(call.insights[1]) = QInt(-18)
    /\ call.insights[2].metric_name = "press_count"
    /\ Comparable(call.insights[2])
    /\ DeviationOf(call.insights[2]) = QInt(-30)
    /\ HasDraft(call.ret, "negative", "total_visitors")
    /\ ~HasDraft(call.ret, "improvement", "total_visitors")
    /\ HasDraft(call.ret, "improvement", "press_count")
    /\ ~HasDraft(call.ret, "negative", "press_count")


(* C29: the drafts returned never hold both a positive and a negative draft
   for the metric of one insight (the only one of its metric in the list,
   so that both come from its deviation); and a cost-per-visitor insight
   more than 15 % above the mean has the negative draft "efficiency needs
   improvement" and no positive draft. *)
C29_NoPositiveWithNegative ==
    DraftsCalled =>
        \A k \in 1..Len(call.insights) :
            LET ins == call.insights[k]
                m == ins.metric_name
            IN  (Comparable(ins) /\ OnlyOfMetric(call.insights, k)) =>
                    /\ ~(HasDraft(call.ret, "positive", m) /\ HasDraft(call.ret, "negative", m))
                    /\ ("cost" \in KEYWORDS[m] /\ QLt(QInt(15), DeviationOf(ins))) =>
                        /\ \E d \in 1..Len(call.ret) :
                            /\ call.ret[d].eval_type = "negative"
                            /\ call.ret[d].source_metric = m
                            /\ call.ret[d].text.template = "cost_needs_improvement"
                        /\ ~HasDraft(call.ret, "positive", m)

(* The cost per visitor 20 % above the mean, alone in the list: the drafts
   are the positive "high result" draft of the audience branch and the
   negative "efficiency needs improvement" draft, both for the cost per
   visitor. *)
C29_WitnessBothDrafts ==
    /\ DraftsCalled
    /\ Len(call.insights) = 1
    /\ call.insights[1].metric_name = "cost per visitor"
    /\ Comparable(call.insights[1])
    /\ DeviationOf(call.insights[1]) = QInt(20)
    /\ Len(call.ret) = 2
    /\ call.ret[1].eval_type = "positive"
    /\ call.ret[1].text.template = "high_result"
    /\ call.ret[1].source_metric = "cost per visitor"
    /\ call.ret[2].eval_type = "negative"
    /\ call.ret[2].text.template = "cost_needs_improvement"
    /\ call.ret[2].source_metric = "cost per visitor"


-----------------------------------------------------------------------------
(* Properties of the cross-metric rules *)

(* The deviation, in per cent, of the record's value of a field from the
   mean of the field over the corpus; None without a value or with no mean
   or a mean of 0. *)
CorpusDeviation(df, field) ==
    IF field \notin DOMAIN current_data \/ field \notin df.columns THEN None
    ELSE IF current_data[field] = None \/ dropna(Column(df, field)) = <<>> THEN None
    ELSE IF SeriesMean(dropna(Column(df, field))) = QInt(0) THEN None
    ELSE DeviationPct(current_data[field], SeriesMean(dropna(Column(df, field))))

(* At least `pct` per cent below, above; more than `pct` per cent above. *)
AtLeastBelow(dev, pct) == dev # None /\ QLe(dev, QInt(0 - pct))

AtLeastAbove(dev, pct) == dev # None /\ QLe(QInt(pct), dev)

MoreThanAbove(dev, pct) == dev # None /\ QLt(QInt(pct), dev)

(* The insights returned hold one of the metric. *)
HasInsight(metric_name) ==
    \E k \in 1..Len(call.ret.all_insights) :
        call.ret.all_insights[k].metric_name = metric_name

(* The corpus has three rows or more with a cost per visitor, and a press
   count in three rows or more. *)
WellSampled(df) ==
    RatioCounted(df, "total_budget", "total_visitors") >= 3 /\ Counted(df, "press_count") >= 3

(* C28: on a corpus with a sample of three or more, the cross-metric
   generator emits the efficiency insight whenever the budget is at least
   5 % below its corpus average and the visitors at least 5 % above theirs,
   the inefficiency warning whenever the budget is more than 10 % above and
   the visitors at least 5 % below, the alternate-channel insight whenever
   the press count is at least 10 % below and the visitors at least 5 %
   above, and never both the efficiency and the inefficiency insight. *)
C28_CrossRules ==
    (InsightsReturned /\ WellSampled(call.ret.df_typed)) =>
        LET b == CorpusDeviation(call.ret.df_typed, "total_budget")
            v == CorpusDeviation(call.ret.df_typed, "total_visitors")
            p == CorpusDeviation(call.ret.df_typed, "press_count")
        IN  /\ (AtLeastBelow(b, 5) /\ AtLeastAbove(v, 5)) =>
                HasInsight("budget-visitor efficiency")
            /\ (MoreThanAbove(b, 10) /\ AtLeastBelow(v, 5)) =>
                HasInsight("budget-visitor inefficiency")
            /\ (AtLeastBelow(p, 10) /\ AtLeastAbove(v, 5)) =>
                HasInsight("press-visitor relation")
            /\ ~(HasInsight("budget-visitor efficiency")
                    /\ HasInsight("budget-visitor inefficiency"))

(* The record on the cut points, against a corpus of three rows or more
   with means of 2: the budget is 5 % below, the visitors 5 % above, the
   press count 10 % below, and no cross-metric insight is returned. *)
C28_WitnessOnCutPoints ==
    /\ InsightsReturned
    /\ WellSampled(call.ret.df_typed)
    /\ current_data = CutPointCurrent
    /\ CorpusDeviation(call.ret.df_typed, "total_budget") = QInt(-5)
    /\ CorpusDeviation(call.ret.df_typed, "total_visitors") = QInt(5)
    /\ CorpusDeviation(call.ret.df_typed, "press_count") = QInt(-10)
    /\ \A k \in 1..Len(call.ret.all_insights) : call.ret.all_insights[k].category # "cross"

====
